---------------------------- MODULE Spec2Model ----------------------------
(***************************************************************************)
(* A model of the numerical core of VisionCharts: the scales of            *)
(* src/core/Scale.js (LinearScale, TimeScale, LogScale), the tick planner  *)
(* (createNiceDomain, createTimeTickValues, Axis.generateTickValues), the   *)
(* curve builders of src/charts/LineChart.js, the technical indicators of  *)
(* src/components/Tooltip.js and LineChart.js, the series stacker of       *)
(* AreaChart.createStackedData with the passes of an area chart, and the   *)
(* resize handling of src/core/Chart.js.                                   *)
(*                                                                         *)
(* JavaScript numbers are modelled as exact rationals extended with NaN,   *)
(* +Infinity and -Infinity, with the IEEE-754 rules for the special        *)
(* values; the rounding of doubles is not modelled, so "equal within       *)
(* tolerance" reads as "equal".  The sign of zero is not modelled: every   *)
(* zero divides as +0.                                                     *)
(***************************************************************************)
EXTENDS Integers, Sequences, FiniteSets, TLC

VARIABLES scale, ret, tp, ticks, chart, ind, stack

vars == <<scale, ret, tp, ticks, chart, ind, stack>>

(***************************************************************************)
(* Bounds of the model.                                                    *)
(***************************************************************************)
\* numeric domain bounds and inputs of a Linear scale are the integers -1..MaxVal
MaxVal == 2
\* domain bounds and inputs of a Log scale are base^k for k in -1..MaxExp
MaxExp == 2
\* instants of a Time scale are 0..MaxMs epoch milliseconds
MaxMs == 2

(***************************************************************************)
(* JavaScript values.  A number is [k |-> "fin", n, d] (the rational n/d   *)
(* in lowest terms, d > 0), or one of NaN, PInf, NInf.  A Date object is   *)
(* [k |-> "date", n |-> its time value, d |-> its object identity]; an     *)
(* Invalid Date has k = "baddate".  Str is the string a Date concatenates  *)
(* to under the + operator.  Irr(e) stands for base^e with e not an        *)
(* integer, which the model keeps symbolic.                                *)
(***************************************************************************)
Abs(i) == IF i < 0 THEN -i ELSE i

RECURSIVE Gcd(_, _)
Gcd(a, b) == IF b = 0 THEN a ELSE Gcd(b, a % b)

Fin(n, d) ==
    LET g == Gcd(Abs(n), Abs(d))
        s == IF d < 0 THEN -1 ELSE 1
    IN  [k |-> "fin", n |-> (s * n) \div g, d |-> (s * d) \div g]

Num(i) == [k |-> "fin", n |-> i, d |-> 1]
NaN == [k |-> "nan", n |-> 0, d |-> 1]
PInf == [k |-> "pinf", n |-> 0, d |-> 1]
NInf == [k |-> "ninf", n |-> 0, d |-> 1]
Str == [k |-> "str", n |-> 0, d |-> 1]
Irr(e) == [k |-> "irr", n |-> e.n, d |-> e.d]
DateObj(ms, id) == [k |-> "date", n |-> ms, d |-> id]
InvalidDate(id) == [k |-> "baddate", n |-> 0, d |-> id]
\* the value of a field that an object does not have
Undefined == [k |-> "undef", n |-> 0, d |-> 1]
Null == [k |-> "null", n |-> 0, d |-> 1]

IsDate(a) == a.k \in {"date", "baddate"}

\* ToNumber: a Date converts to its time value, null to 0, an Invalid
\* Date, a non-numeric string and undefined to NaN
ToNumber(a) ==
    CASE a.k = "date" -> Num(a.n)
      [] a.k = "null" -> Num(0)
      [] a.k \in {"baddate", "str", "irr", "undef"} -> NaN
      [] OTHER -> a

\* the sign of a number that is not NaN
Sgn(a) ==
    CASE a.k = "pinf" -> 1
      [] a.k = "ninf" -> -1
      [] OTHER -> IF a.n > 0 THEN 1 ELSE IF a.n < 0 THEN -1 ELSE 0

Signed(s) == IF s > 0 THEN PInf ELSE IF s < 0 THEN NInf ELSE NaN

Neg(a0) ==
    LET a == ToNumber(a0)
    IN  CASE a.k = "fin" -> Fin(-a.n, a.d)
          [] a.k = "pinf" -> NInf
          [] a.k = "ninf" -> PInf
          [] OTHER -> NaN

\* numeric addition (both operands numbers)
NumAdd(a, b) ==
    CASE a.k = "nan" \/ b.k = "nan" -> NaN
      [] a.k = "fin" /\ b.k = "fin" -> Fin(a.n * b.d + b.n * a.d, a.d * b.d)
      [] a.k = "fin" -> b
      [] b.k = "fin" -> a
      [] OTHER -> IF a.k = b.k THEN a ELSE NaN

\* a - b: both operands are converted to numbers
Sub(a, b) == NumAdd(ToNumber(a), Neg(b))

\* a + b: when either operand is an object or a string the operands are
\* concatenated as strings, otherwise they are added as numbers
Add(a, b) ==
    IF a.k \in {"date", "baddate", "str"} \/ b.k \in {"date", "baddate", "str"}
    THEN Str
    ELSE NumAdd(ToNumber(a), ToNumber(b))

Mul(a0, b0) ==
    LET a == ToNumber(a0)
        b == ToNumber(b0)
    IN  CASE a.k = "nan" \/ b.k = "nan" -> NaN
          [] a.k = "fin" /\ b.k = "fin" -> Fin(a.n * b.n, a.d * b.d)
          [] OTHER -> Signed(Sgn(a) * Sgn(b))

Div(a0, b0) ==
    LET a == ToNumber(a0)
        b == ToNumber(b0)
    IN  CASE a.k = "nan" \/ b.k = "nan" -> NaN
          [] a.k = "fin" /\ b.k = "fin" ->
                IF b.n = 0 THEN Signed(Sgn(a)) ELSE Fin(a.n * b.d, a.d * b.n)
          [] a.k = "fin" -> Num(0)
          [] b.k = "fin" -> IF Sgn(b) < 0 THEN Neg(a) ELSE a
          [] OTHER -> NaN

\* a < b on numbers: false when either is NaN
Lt(a0, b0) ==
    LET a == ToNumber(a0)
        b == ToNumber(b0)
    IN  CASE a.k = "nan" \/ b.k = "nan" -> FALSE
          [] a.k = "fin" /\ b.k = "fin" -> a.n * b.d < b.n * a.d
          [] a.k = "ninf" -> b.k # "ninf"
          [] a.k = "pinf" -> FALSE
          [] OTHER -> b.k = "pinf"

NumEq(a, b) == a.k # "nan" /\ b.k # "nan" /\ a = b

Le(a, b) == Lt(a, b) \/ NumEq(ToNumber(a), ToNumber(b))

\* a === b: numbers compare by value (NaN equals nothing), objects by identity
StrictEq(a, b) ==
    IF IsDate(a) \/ IsDate(b)
    THEN IsDate(a) /\ IsDate(b) /\ a.d = b.d
    ELSE NumEq(a, b)

\* Math.floor, Math.ceil, Math.round
Floor(a) == IF a.k = "fin" THEN Num(a.n \div a.d) ELSE a
Ceil(a) == IF a.k = "fin" THEN Num(-((-a.n) \div a.d)) ELSE a
Round(a) == IF a.k = "fin" THEN Floor(NumAdd(a, Fin(1, 2))) ELSE a

\* a value is a division by zero when both operands are finite and the divisor is 0
DivByZero(a, b) == ToNumber(b).k = "fin" /\ ToNumber(b).n = 0

RECURSIVE IntPow(_, _)
IntPow(b, e) == IF e = 0 THEN 1 ELSE b * IntPow(b, e - 1)

\* Math.pow(base, e)
Pow(base, e) ==
    CASE e.k = "nan" -> NaN
      [] e.k = "pinf" -> PInf
      [] e.k = "ninf" -> Num(0)
      [] e.k = "fin" /\ e.d = 1 ->
            IF e.n >= 0 THEN Num(IntPow(base, e.n)) ELSE Fin(1, IntPow(base, -e.n))
      [] OTHER -> Irr(e)

\* the exponent e with base^e = v, for a finite v > 0 that is an integer
\* power of base (the only positive values the model feeds to a logarithm)
RECURSIVE LogPos(_, _)
LogPos(base, v) ==
    IF v.n = v.d THEN 0
    ELSE IF v.n >= base * v.d THEN 1 + LogPos(base, Fin(v.n, v.d * base))
    ELSE IF v.n < v.d THEN LogPos(base, Fin(v.n * base, v.d)) - 1
    ELSE 0

\* Math.log(v) / Math.log(base), base > 1
Log(base, v0) ==
    LET v == ToNumber(v0)
    IN  CASE v.k = "nan" -> NaN
          [] v.k = "pinf" -> PInf
          [] v.k = "ninf" -> NaN
          [] v.n = 0 -> NInf
          [] v.n < 0 -> NaN
          [] OTHER -> Num(LogPos(base, v))

(***************************************************************************)
(* The scales: src/core/Scale.js.  A call returns [thrown, val, divz]:     *)
(* whether it threw, the value it returned, and whether it evaluated a     *)
(* division by zero.                                                       *)
(***************************************************************************)
Returns(v, dz) == [thrown |-> FALSE, val |-> v, divz |-> dz]
Throws == [thrown |-> TRUE, val |-> NaN, divz |-> FALSE]

\* LinearScale.scale without its degenerate-domain case
LinearScale_scale_NoEdgeCase(s, value) ==
    LET d0 == s.domain[1]
        d1 == s.domain[2]
        r0 == s.range[1]
        r1 == s.range[2]
    IN  Returns(Add(r0, Div(Mul(Sub(value, d0), Sub(r1, r0)), Sub(d1, d0))),
                DivByZero(Mul(Sub(value, d0), Sub(r1, r0)), Sub(d1, d0)))

LinearScale_scale(s, value) ==
    LET d0 == s.domain[1]
        d1 == s.domain[2]
        r0 == s.range[1]
        r1 == s.range[2]
    IN  IF StrictEq(d0, d1) THEN Returns(r0, FALSE)
        ELSE Returns(Add(r0, Div(Mul(Sub(value, d0), Sub(r1, r0)), Sub(d1, d0))),
                     DivByZero(Mul(Sub(value, d0), Sub(r1, r0)), Sub(d1, d0)))

LinearScale_invert(s, value) ==
    LET d0 == s.domain[1]
        d1 == s.domain[2]
        r0 == s.range[1]
        r1 == s.range[2]
    IN  IF StrictEq(r0, r1) THEN Returns(d0, FALSE)
        ELSE Returns(Add(d0, Div(Mul(Sub(value, r0), Sub(d1, d0)), Sub(r1, r0))),
                     DivByZero(Mul(Sub(value, r0), Sub(d1, d0)), Sub(r1, r0)))

\* Date.prototype.getTime, applied when the value is a Date
getTime(value) == IF IsDate(value) THEN ToNumber(value) ELSE value

\* the integer part of a finite number (the time value new Date(t) keeps)
Trunc(a) == IF a.n >= 0 THEN a.n \div a.d ELSE -((-a.n) \div a.d)

\* new Date(t), as object number id.  A finite number gives the instant of its
\* integer part, NaN and the infinities an Invalid Date, a Date a copy.  A
\* string is parsed; the outcome of parsing a string that is not in the
\* ISO format is implementation-defined and is passed in as `parsed`.
NewDate(t, id, parsed) ==
    CASE t.k = "fin" -> DateObj(Trunc(t), id)
      [] t.k = "date" -> DateObj(t.n, id)
      [] t.k = "str" -> IF parsed.k = "fin" THEN DateObj(Trunc(parsed), id) ELSE InvalidDate(id)
      [] OTHER -> InvalidDate(id)

TimeScale_scale(s, value) ==
    LET timestamp == getTime(value)
    IN  LinearScale_scale(s, timestamp)

TimeScale_invert(s, value, parsed) ==
    LET inner == LinearScale_invert(s, value)
    IN  Returns(NewDate(inner.val, 4, parsed), inner.divz)

\* LogScale.scale testing the degenerate domain before the sign of the value
LogScale_scale_EdgeCaseFirst(s, value) ==
    LET d0 == s.domain[1]
        d1 == s.domain[2]
        r0 == s.range[1]
        r1 == s.range[2]
        num == Mul(Sub(Log(s.base, value), Log(s.base, d0)), Sub(r1, r0))
        den == Sub(Log(s.base, d1), Log(s.base, d0))
    IN  IF StrictEq(d0, d1) THEN Returns(r0, FALSE)
        ELSE IF Le(value, Num(0)) THEN Throws
        ELSE Returns(Add(r0, Div(num, den)), DivByZero(num, den))

\* LogScale.scale interpolating on the values instead of their logarithms
LogScale_scale_NoLog(s, value) ==
    LET d0 == s.domain[1]
        d1 == s.domain[2]
        r0 == s.range[1]
        r1 == s.range[2]
        num == Mul(Sub(value, d0), Sub(r1, r0))
        den == Sub(d1, d0)
    IN  IF Le(value, Num(0)) THEN Throws
        ELSE IF StrictEq(d0, d1) THEN Returns(r0, FALSE)
        ELSE Returns(Add(r0, Div(num, den)), DivByZero(num, den))

\* LogScale.scale measuring the value from the upper domain bound
LogScale_scale_FromD1(s, value) ==
    LET d0 == s.domain[1]
        d1 == s.domain[2]
        r0 == s.range[1]
        r1 == s.range[2]
        num == Mul(Sub(Log(s.base, value), Log(s.base, d1)), Sub(r1, r0))
        den == Sub(Log(s.base, d1), Log(s.base, d0))
    IN  IF Le(value, Num(0)) THEN Throws
        ELSE IF StrictEq(d0, d1) THEN Returns(r0, FALSE)
        ELSE Returns(Add(r0, Div(num, den)), DivByZero(num, den))

LogScale_scale(s, value) ==
    LET d0 == s.domain[1]
        d1 == s.domain[2]
        r0 == s.range[1]
        r1 == s.range[2]
        num == Mul(Sub(Log(s.base, value), Log(s.base, d0)), Sub(r1, r0))
        den == Sub(Log(s.base, d1), Log(s.base, d0))
    IN  IF Le(value, Num(0)) THEN Throws
        ELSE IF StrictEq(d0, d1) THEN Returns(r0, FALSE)
        ELSE Returns(Add(r0, Div(num, den)), DivByZero(num, den))

LogScale_invert(s, value) ==
    LET d0 == s.domain[1]
        d1 == s.domain[2]
        r0 == s.range[1]
        r1 == s.range[2]
        num == Mul(Sub(value, r0), Sub(Log(s.base, d1), Log(s.base, d0)))
        den == Sub(r1, r0)
    IN  IF StrictEq(r0, r1) THEN Returns(d0, FALSE)
        ELSE Returns(Pow(s.base, Add(Log(s.base, d0), Div(num, den))), DivByZero(num, den))

\* scale.scale(value) and scale.invert(value), dispatched on the scale's class
ScaleCall(s, value) ==
    CASE s.kind = "linear" -> LinearScale_scale(s, value)
      [] s.kind = "time" -> TimeScale_scale(s, value)
      [] OTHER -> LogScale_scale(s, value)

InvertCall(s, value, parsed) ==
    CASE s.kind = "linear" -> LinearScale_invert(s, value)
      [] s.kind = "time" -> TimeScale_invert(s, value, parsed)
      [] OTHER -> LogScale_invert(s, value)

(***************************************************************************)
(* The inputs the model draws.                                             *)
(***************************************************************************)
NumVals == {Num(i) : i \in -1..MaxVal}
RangeVals == {Num(0), Num(1), Num(100)}
LogBases == {2, 10}
LogVals(base) == {Pow(base, Num(e)) : e \in -1..MaxExp} \cup {Num(0), Num(-1)}
TimeVals == {Num(i) : i \in 0..MaxMs}

Pairs(S) == {<<a, b>> : a \in S, b \in S}

\* the domains of a time scale: two millisecond numbers, two Date objects,
\* or one Date object given as both bounds
TimeDomains ==
    Pairs(TimeVals)
      \cup {<<DateObj(i, 1), DateObj(j, 2)>> : i \in 0..MaxMs, j \in 0..MaxMs}
      \cup {<<DateObj(i, 1), DateObj(i, 1)>> : i \in 0..MaxMs}

Domains(kind, base) ==
    CASE kind = "linear" -> Pairs(NumVals)
      [] kind = "time" -> TimeDomains
      [] OTHER -> Pairs(LogVals(base))

\* the values handed to scale()
Values(kind, base) ==
    CASE kind = "linear" -> NumVals
      [] kind = "time" -> TimeVals \cup {DateObj(i, 3) : i \in 0..MaxMs}
      [] OTHER -> LogVals(base)

\* the coordinates handed to invert(): the range bounds, every coordinate
\* scale() returns for the scale as it is and, for a Linear or Time scale,
\* the coordinates 0, 1 and 100 (a Log scale would raise its base to powers
\* beyond the model's integers)
Coords(s) ==
    {s.range[1], s.range[2]}
      \cup {ScaleCall(s, v).val : v \in {w \in Values(s.kind, s.base) : ~ScaleCall(s, w).thrown}}
      \cup (IF s.kind = "log" THEN {} ELSE RangeVals)

\* what parsing the string of a Date concatenated with a number may give
ParseOutcomes == {NaN} \cup TimeVals

Result(op, arg, r) ==
    [op |-> op, arg |-> arg, thrown |-> r.thrown, val |-> r.val, divz |-> r.divz]

\* the tick planner before its first call
IdleTicks == [pc |-> "idle", algo |-> "none", min |-> NaN, max |-> NaN, count |-> NaN,
              nice |-> <<NaN, NaN>>, interval |-> "none", step |-> NaN, cur |-> NaN]

\* a line chart, an indicator call and an area chart that do not exist yet
NoChart == [pc |-> "none"]
NoInd == [pc |-> "none"]
NoStack == [pc |-> "none"]

(***************************************************************************)
(* The scale as a state machine.                                           *)
(***************************************************************************)
\* new LinearScale(domain, range), new TimeScale(domain, range),
\* new LogScale(domain, range, base)
Init ==
    /\ \E kind \in {"linear", "time", "log"} :
         \E base \in LogBases :
           /\ kind # "log" => base = 10
           /\ \E domain \in Domains(kind, base), range \in Pairs(RangeVals) :
                scale = [kind |-> kind, domain |-> domain, range |-> range, base |-> base]
    /\ ret = Result("new", NaN, Returns(NaN, FALSE))
    /\ tp = IdleTicks
    /\ ticks = <<>>
    /\ chart = NoChart
    /\ ind = NoInd
    /\ stack = NoStack

setDomain(domain) ==
    /\ scale' = [scale EXCEPT !.domain = domain]
    /\ ret' = Result("setDomain", NaN, Returns(NaN, FALSE))
    /\ UNCHANGED <<tp, ticks, chart, ind, stack>>

setRange(range) ==
    /\ scale' = [scale EXCEPT !.range = range]
    /\ ret' = Result("setRange", NaN, Returns(NaN, FALSE))
    /\ UNCHANGED <<tp, ticks, chart, ind, stack>>

DoScale(value) ==
    /\ ret' = Result("scale", value, ScaleCall(scale, value))
    /\ UNCHANGED <<scale, tp, ticks, chart, ind, stack>>

DoInvert(value, parsed) ==
    /\ ret' = Result("invert", value, InvertCall(scale, value, parsed))
    /\ UNCHANGED <<scale, tp, ticks, chart, ind, stack>>

\* LineChart.updateScales, for the x scale: hasData says whether the datasets
\* hold a point, lo and hi are the least and greatest x among the points
updateScales(hasData, lo, hi, innerWidth) ==
    LET xMin == IF scale.kind = "time" THEN NewDate(Num(lo), 1, NaN) ELSE Num(lo)
        xMax == IF scale.kind = "time" THEN NewDate(Num(hi), 2, NaN) ELSE Num(hi)
    IN  /\ scale.kind \in {"linear", "time"}
        /\ scale' = [scale EXCEPT
                       !.domain = IF hasData THEN <<xMin, xMax>> ELSE <<Num(0), Num(1)>>,
                       !.range = <<Num(0), innerWidth>>]
        /\ ret' = Result("updateScales", NaN, Returns(NaN, FALSE))
        /\ UNCHANGED <<tp, ticks, chart, ind, stack>>

Next ==
    \/ \E domain \in Domains(scale.kind, scale.base) : setDomain(domain)
    \/ \E range \in Pairs(RangeVals) : setRange(range)
    \/ \E value \in Values(scale.kind, scale.base) : DoScale(value)
    \/ \E value \in Coords(scale) :
         \E parsed \in ParseOutcomes :
           /\ (scale.kind # "time" \/ ~IsDate(scale.domain[1])
                 \/ StrictEq(scale.range[1], scale.range[2])) => parsed = NaN
           /\ DoInvert(value, parsed)
    \/ \E hasData \in BOOLEAN, lo \in 0..MaxMs, hi \in 0..MaxMs, innerWidth \in RangeVals :
         /\ lo <= hi
         /\ ~hasData => lo = 0 /\ hi = 0
         /\ updateScales(hasData, lo, hi, innerWidth)

Spec == Init /\ [][Next]_vars

(***************************************************************************)
(* Properties of the scales.                                               *)
(***************************************************************************)
d0 == scale.domain[1]
d1 == scale.domain[2]
r0 == scale.range[1]
r1 == scale.range[2]

Positive(a) == Lt(Num(0), a)

\* v lies between the two domain bounds, whichever is the smaller
InDomain(v) == (Le(d0, v) /\ Le(v, d1)) \/ (Le(d1, v) /\ Le(v, d0))

\* the last call was invert, applied to the coordinate scale(v) returns
InvertedImageOf(v) ==
    /\ ret.op = "invert"
    /\ ~ScaleCall(scale, v).thrown
    /\ ret.arg = ScaleCall(scale, v).val

\* C1: for every Linear and Log scale with d0 # d1 and r0 # r1, and every v in
\* the domain (v > 0 for Log), invert(scale(v)) equals v.
C1_RoundTrip ==
    (scale.kind \in {"linear", "log"} /\ ~StrictEq(d0, d1) /\ ~StrictEq(r0, r1)) =>
        \A v \in Values(scale.kind, scale.base) :
            (InDomain(v) /\ (scale.kind = "log" => Positive(v)) /\ InvertedImageOf(v))
                => (~ret.thrown /\ ret.val = v)

\* C2 as stated: for every Linear and Log scale, whatever domain and range are
\* set, scale(domain[0]) = range[0] and scale(domain[1]) = range[1].
C2_EndpointsAnyDomain ==
    (scale.kind \in {"linear", "log"} /\ ret.op = "scale") =>
        /\ ret.arg = d0 => (~ret.thrown /\ ret.val = r0)
        /\ ret.arg = d1 => (~ret.thrown /\ ret.val = r1)

\* C2 as amended: for every Linear scale, and every Log scale whose domain
\* bounds are both positive, scale(domain[0]) = range[0]; and when d0 # d1,
\* scale(domain[1]) = range[1].
C2_Endpoints ==
    (/\ scale.kind \in {"linear", "log"}
     /\ ret.op = "scale"
     /\ scale.kind = "log" => (Positive(d0) /\ Positive(d1))) =>
        /\ ret.arg = d0 => (~ret.thrown /\ ret.val = r0)
        /\ (ret.arg = d1 /\ d0 # d1) => (~ret.thrown /\ ret.val = r1)

C2_Witness ==
    /\ scale.kind = "log"
    /\ ret.op = "scale"
    /\ ret.arg = d1
    /\ d0 # d1
    /\ r0 # r1
    /\ Positive(d0)
    /\ ret.val = r1

\* C3: LogScale.scale(value) throws for every value <= 0, whatever the domain
\* and range (a degenerate domain included), returns no coordinate, and leaves
\* the domain and range as they were.
C3_LogScaleRejectsNonPositive ==
    [][(scale.kind = "log" /\ ret'.op = "scale" /\ Le(ret'.arg, Num(0)))
          => (ret'.thrown /\ ret'.val = NaN /\ scale' = scale)]_vars

C3_Witness ==
    /\ scale.kind = "log"
    /\ ret.op = "scale"
    /\ Le(ret.arg, Num(0))
    /\ StrictEq(d0, d1)
    /\ ret.thrown

\* C4: a LogScale configured (constructor or setDomain) with a non-positive
\* domain bound, or asked to map or invert a non-positive domain value, fails
\* instead of returning.
C4_LogScaleRejectsBadDomain ==
    scale.kind = "log" =>
        /\ (ret.op \in {"new", "setDomain"} /\ (Le(d0, Num(0)) \/ Le(d1, Num(0))))
              => ret.thrown
        /\ (ret.op \in {"scale", "invert"} /\ Le(ret.arg, Num(0))) => ret.thrown

\* C5: a LogScale interpolates linearly in log-space: with domain [b^i, b^j],
\* i # j, scale(b^k) = r0 + (k - i)*(r1 - r0)/(j - i); with domain [1, 100],
\* range [0, 100] and base 10, scale(1) = 0, scale(10) = 50, scale(100) = 100.
C5_LogInterpolation ==
    (scale.kind = "log" /\ ret.op = "scale") =>
        /\ \A i, j, k \in -1..MaxExp :
              (/\ i # j
               /\ d0 = Pow(scale.base, Num(i))
               /\ d1 = Pow(scale.base, Num(j))
               /\ ret.arg = Pow(scale.base, Num(k))) =>
                  /\ ~ret.thrown
                  /\ ret.val = NumAdd(r0, Div(Mul(Num(k - i), Sub(r1, r0)), Num(j - i)))
        /\ (/\ scale.base = 10
            /\ scale.domain = <<Num(1), Num(100)>>
            /\ scale.range = <<Num(0), Num(100)>>) =>
              /\ ret.arg = Num(1) => ret.val = Num(0)
              /\ ret.arg = Num(10) => ret.val = Num(50)
              /\ ret.arg = Num(100) => ret.val = Num(100)

C5_Witness ==
    /\ scale.kind = "log"
    /\ scale.base = 10
    /\ scale.domain = <<Num(1), Num(100)>>
    /\ scale.range = <<Num(0), Num(100)>>
    /\ ret.op = "scale"
    /\ ret.arg = Num(10)
    /\ ret.val = Num(50)

\* C6: when d0 = d1, LinearScale.scale returns r0 for every input; when
\* r0 = r1, LinearScale.invert returns d0 for every input; neither divides by
\* zero.
C6_DegenerateRule ==
    scale.kind = "linear" =>
        /\ (ret.op = "scale" /\ d0 = d1) => (ret.val = r0 /\ ~ret.divz /\ ~ret.thrown)
        /\ (ret.op = "invert" /\ r0 = r1) => (ret.val = d0 /\ ~ret.divz /\ ~ret.thrown)

C6_Witness ==
    /\ scale.kind = "linear"
    /\ ret.op = "scale"
    /\ d0 = d1
    /\ r0 # r1
    /\ ret.arg # d0
    /\ ret.val = r0

\* the scale with its domain bounds replaced by their millisecond values
AsMillis(s) == [s EXCEPT !.domain = <<getTime(s.domain[1]), getTime(s.domain[2])>>]

\* C7: a TimeScale behaves as a LinearScale over epoch milliseconds, whether
\* the domain bounds and the input are Dates or millisecond numbers: scale(v)
\* is the Linear result on the millisecond values (r0 when both bounds are the
\* same instant), and invert returns the Date of the Linear inverse.
C7_TimeAsLinear ==
    scale.kind = "time" =>
        /\ ret.op = "scale" =>
              ret.val = LinearScale_scale(AsMillis(scale), getTime(ret.arg)).val
        /\ ret.op = "invert" =>
              /\ ret.val.k = "date"
              /\ Num(ret.val.n) = LinearScale_invert(AsMillis(scale), ret.arg).val

(***************************************************************************)
(* The tick planner: createNiceDomain and createTimeTickValues of          *)
(* src/core/Scale.js, and Axis.generateTickValues, which calls them.       *)
(*                                                                         *)
(* Instants are counted in seconds since the epoch, not in milliseconds    *)
(* (Second is the code's 1000), so that ten years fit the integers of the  *)
(* model checker; the local time zone is UTC, without daylight saving.     *)
(***************************************************************************)
\* ticks asked of an axis are -1..MaxCount
MaxCount == 5
\* numeric axis bounds are the halves i/2 for i in -2..MaxNice, and 5, 12, 100
MaxNice == 3

Second == 1
Minute == 60 * Second
Hour == 60 * Minute
Day == 24 * Hour

\* Math.max(a, b)
MathMax(a, b) ==
    IF a.k = "nan" \/ b.k = "nan" THEN NaN ELSE IF Lt(a, b) THEN b ELSE a

\* Math.floor(Math.log10(x)) for a finite x > 0
RECURSIVE FloorLog10Pos(_)
FloorLog10Pos(x) ==
    IF x.n >= 10 * x.d THEN 1 + FloorLog10Pos(Fin(x.n, x.d * 10))
    ELSE IF x.n < x.d THEN FloorLog10Pos(Fin(x.n * 10, x.d)) - 1
    ELSE 0

\* Math.floor(Math.log10(x))
FloorLog10(x) ==
    CASE x.k = "nan" -> NaN
      [] x.k = "pinf" -> PInf
      [] x.k = "ninf" -> NaN
      [] x.n = 0 -> NInf
      [] x.n < 0 -> NaN
      [] OTHER -> Num(FloorLog10Pos(x))

\* createNiceDomain rounding min / step to the nearest multiple instead of down
createNiceDomain_RoundMin(min, max, count) ==
    IF StrictEq(min, max) THEN <<Sub(min, Num(1)), Add(max, Num(1))>>
    ELSE LET range == Sub(max, min)
             step0 == Pow(10, FloorLog10(Div(range, count)))
             ratio == Div(range, Mul(count, step0))
             step == IF Le(Num(5), ratio) THEN Mul(step0, Num(5))
                     ELSE IF Le(Num(2), ratio) THEN Mul(step0, Num(2))
                     ELSE step0
             niceMin == Mul(Round(Div(min, step)), step)
             niceMax == Mul(Ceil(Div(max, step)), step)
         IN  <<niceMin, niceMax>>

createNiceDomain(min, max, count) ==
    IF StrictEq(min, max) THEN <<Sub(min, Num(1)), Add(max, Num(1))>>
    ELSE LET range == Sub(max, min)
             step0 == Pow(10, FloorLog10(Div(range, count)))
             ratio == Div(range, Mul(count, step0))
             step == IF Le(Num(5), ratio) THEN Mul(step0, Num(5))
                     ELSE IF Le(Num(2), ratio) THEN Mul(step0, Num(2))
                     ELSE step0
             niceMin == Mul(Floor(Div(min, step)), step)
             niceMax == Mul(Ceil(Div(max, step)), step)
         IN  <<niceMin, niceMax>>

\* the evenly spaced ticks of Axis.generateTickValues: min + i * step for
\* i = 0, 1, ... while i <= tickCount
\* the loop of Axis.generateTickValues stopping one tick early (i < tickCount)
RECURSIVE EvenTicks_Exclusive(_, _, _, _)
EvenTicks_Exclusive(min, step, i, tickCount) ==
    IF i < tickCount
    THEN <<Add(min, Mul(Num(i), step))>> \o EvenTicks_Exclusive(min, step, i + 1, tickCount)
    ELSE <<>>

RECURSIVE EvenTicks(_, _, _, _)
EvenTicks(min, step, i, tickCount) ==
    IF i <= tickCount
    THEN <<Add(min, Mul(Num(i), step))>> \o EvenTicks(min, step, i + 1, tickCount)
    ELSE <<>>

(***************************************************************************)
(* The Date fields createTimeTickValues reads and sets.                    *)
(***************************************************************************)
\* days from 1970-01-01 to the first of month m (0 = January) of year y
DaysFromCivil(y, m) ==
    LET yy == IF m <= 1 THEN y - 1 ELSE y
        era == yy \div 400
        yoe == yy - era * 400
        mp == IF m > 1 THEN m - 2 ELSE m + 10
        doy == (153 * mp + 2) \div 5
        doe == yoe * 365 + yoe \div 4 - yoe \div 100 + doy
    IN  era * 146097 + doe - 719468

\* getFullYear, getMonth, getDate, getDay, getHours, getMinutes, getSeconds
Fields(t) ==
    LET days == t \div Day
        z == days + 719468
        era == z \div 146097
        doe == z - era * 146097
        yoe == (doe - doe \div 1460 + doe \div 36524 - doe \div 146096) \div 365
        doy == doe - (365 * yoe + yoe \div 4 - yoe \div 100)
        mp == (5 * doy + 2) \div 153
        m == IF mp < 10 THEN mp + 2 ELSE mp - 10
    IN  [year |-> yoe + era * 400 + (IF m <= 1 THEN 1 ELSE 0),
         month |-> m,
         date |-> doy - (153 * mp + 2) \div 5 + 1,
         day |-> (days + 4) % 7,
         hours |-> (t % Day) \div Hour,
         minutes |-> (t % Hour) \div Minute,
         seconds |-> (t % Minute) \div Second]

\* the time value of the given fields; a field outside its range carries over
MakeTime(year, month, date, hours, minutes, seconds) ==
    (DaysFromCivil(year + month \div 12, month % 12) + date - 1) * Day
        + hours * Hour + minutes * Minute + seconds * Second

\* startDate after the switch that adjusts it to a nice starting point
AlignStart(interval, t) ==
    LET f == Fields(t)
    IN  CASE interval = "minute" -> MakeTime(f.year, f.month, f.date, f.hours, f.minutes, 0)
          [] interval = "hour" -> MakeTime(f.year, f.month, f.date, f.hours, 0, 0)
          [] interval = "day" -> MakeTime(f.year, f.month, f.date, 0, 0, 0)
          [] interval = "week" -> MakeTime(f.year, f.month, f.date - f.day, 0, 0, 0)
          [] interval = "month" -> MakeTime(f.year, f.month, 1, 0, 0, 0)
          [] OTHER -> MakeTime(f.year, 0, 1, 0, 0, 0)

\* the increment taking a month for 30 days and a year for 365 days
Advance_FixedLength(interval, cur, step) ==
    IF cur.k # "fin" \/ step.k # "fin" THEN NaN
    ELSE Num(cur.n + Trunc(step) *
                (CASE interval = "minute" -> Minute
                   [] interval = "hour" -> Hour
                   [] interval = "day" -> Day
                   [] interval = "week" -> 7 * Day
                   [] interval = "month" -> 30 * Day
                   [] OTHER -> 365 * Day))

\* currentDate after the switch that increments it by step; a step that is
\* NaN or infinite leaves an Invalid Date, whose time value is NaN
Advance(interval, cur, step) ==
    IF cur.k # "fin" \/ step.k # "fin" THEN NaN
    ELSE LET f == Fields(cur.n)
             s == Trunc(step)
         IN  Num(CASE interval = "minute" ->
                        MakeTime(f.year, f.month, f.date, f.hours, f.minutes + s, f.seconds)
                   [] interval = "hour" ->
                        MakeTime(f.year, f.month, f.date, f.hours + s, f.minutes, f.seconds)
                   [] interval = "day" ->
                        MakeTime(f.year, f.month, f.date + s, f.hours, f.minutes, f.seconds)
                   [] interval = "week" ->
                        MakeTime(f.year, f.month, f.date + 7 * s, f.hours, f.minutes, f.seconds)
                   [] interval = "month" ->
                        MakeTime(f.year, f.month + s, f.date, f.hours, f.minutes, f.seconds)
                   [] OTHER ->
                        MakeTime(f.year + s, f.month, f.date, f.hours, f.minutes, f.seconds))

\* the interval createTimeTickValues chooses for a range, and its length
ChooseInterval(range) ==
    CASE Lt(range, Num(Hour)) -> "minute"
      [] Lt(range, Num(Day)) -> "hour"
      [] Lt(range, Num(7 * Day)) -> "day"
      [] Lt(range, Num(30 * Day)) -> "week"
      [] Lt(range, Num(365 * Day)) -> "month"
      [] OTHER -> "year"

IntervalMs(interval) ==
    CASE interval = "minute" -> Minute
      [] interval = "hour" -> Hour
      [] interval = "day" -> Day
      [] interval = "week" -> 7 * Day
      [] interval = "month" -> 30 * Day
      [] OTHER -> 365 * Day

\* the step createTimeTickValues computes
TimeStep(range, count, interval) ==
    MathMax(Num(1), Round(Div(range, Mul(count, Num(IntervalMs(interval))))))

(***************************************************************************)
(* The tick planner as a state machine.  The axis is built with a scale    *)
(* (options.scale, the variable scale) and a tick count (tp.count); tp     *)
(* holds the call in progress: its arguments, the nice domain or the       *)
(* interval and step it computed, and currentDate (cur); ticks is          *)
(* tickValues.  The loop of createTimeTickValues takes one step per        *)
(* iteration; no other call starts before it returns.                      *)
(***************************************************************************)
\* Axis.generateTickValues takes a domain for one of instants when its first
\* bound is a Date or a number above 1000000000000 (milliseconds)
IsTimeDomain(domain) ==
    IsDate(domain[1]) \/ (domain[1].k = "fin" /\ Lt(Num(1000000000 * Second), domain[1]))

generateTickValues ==
    LET domain == scale.domain
        tickCount == tp.count
    IN
    /\ tp.pc \in {"idle", "done"}
    /\ IF IsTimeDomain(domain)
       THEN LET minDate == IF IsDate(domain[1]) THEN domain[1] ELSE NewDate(domain[1], 1, NaN)
                maxDate == IF IsDate(domain[2]) THEN domain[2] ELSE NewDate(domain[2], 2, NaN)
                minTime == getTime(minDate)
                maxTime == getTime(maxDate)
                range == Sub(maxTime, minTime)
                interval == ChooseInterval(range)
            IN  /\ tp' = [pc |-> "loop", algo |-> "time", min |-> minTime, max |-> maxTime,
                          count |-> tickCount, nice |-> <<NaN, NaN>>, interval |-> interval,
                          step |-> TimeStep(range, tickCount, interval),
                          cur |-> Num(AlignStart(interval, minTime.n))]
                /\ ticks' = <<>>
       ELSE LET nice == createNiceDomain(domain[1], domain[2], tickCount)
                step == Div(Sub(nice[2], nice[1]), tickCount)
            IN  /\ tp' = [pc |-> "done", algo |-> "numeric", min |-> domain[1],
                          max |-> domain[2], count |-> tickCount, nice |-> nice,
                          interval |-> "none", step |-> step, cur |-> NaN]
                /\ ticks' = EvenTicks(nice[1], step, 0, tickCount.n)
    /\ UNCHANGED <<scale, ret, chart, ind, stack>>

\* one iteration of while (currentDate <= maxDate)
TimeTickLoop ==
    /\ tp.pc = "loop"
    /\ Le(tp.cur, tp.max)
    /\ ticks' = Append(ticks, DateObj(tp.cur.n, 5 + Len(ticks)))
    /\ tp' = [tp EXCEPT !.cur = Advance(tp.interval, tp.cur, tp.step)]
    /\ UNCHANGED <<scale, ret, chart, ind, stack>>

\* the loop's exit and return tickValues
TimeTickReturn ==
    /\ tp.pc = "loop"
    /\ ~Le(tp.cur, tp.max)
    /\ tp' = [tp EXCEPT !.pc = "done"]
    /\ UNCHANGED <<scale, ret, ticks, chart, ind, stack>>

NiceVals == {Fin(i, 2) : i \in -2..MaxNice} \cup {Num(5), Num(12), Num(100)}
TickCounts == {Num(c) : c \in -1..MaxCount}

\* 2004-02-27 22:58:30, 2003-12-31 23:59:30 and 2004-01-01 00:00:00
TickBases == {MakeTime(2004, 1, 27, 22, 58, 30), MakeTime(2003, 11, 31, 23, 59, 30),
              MakeTime(2004, 0, 1, 0, 0, 0)}
TickSpans == {-20 * Second, 0, 90 * Second, 40 * Minute, 5 * Hour, 3 * Day, 10 * Day,
              100 * Day, 800 * Day}

\* domains of instants: two Dates, or two numbers
TickTimeDomains ==
    {<<DateObj(b, 1), DateObj(b + s, 2)>> : b \in TickBases, s \in TickSpans}
      \cup {<<Num(b), Num(b + s)>> : b \in {MakeTime(2004, 0, 1, 0, 0, 0)}, s \in TickSpans}

\* new Axis({scale, tickCount}) over a scale whose domain has been set
InitTicks ==
    /\ \E domain \in Pairs(NiceVals) \cup TickTimeDomains :
         scale = [kind |-> IF IsTimeDomain(domain) THEN "time" ELSE "linear",
                  domain |-> domain, range |-> <<Num(0), Num(1)>>, base |-> 10]
    /\ ret = Result("new", NaN, Returns(NaN, FALSE))
    /\ \E tickCount \in TickCounts : tp = [IdleTicks EXCEPT !.count = tickCount]
    /\ ticks = <<>>
    /\ chart = NoChart
    /\ ind = NoInd
    /\ stack = NoStack

NextTicks ==
    \/ generateTickValues
    \/ TimeTickLoop
    \/ TimeTickReturn

SpecTicks == InitTicks /\ [][NextTicks]_vars

(***************************************************************************)
(* Properties of the tick planner.                                         *)
(***************************************************************************)
NumericDone == tp.algo = "numeric" /\ tp.pc = "done"

C9_AtLeastOneTickAnyCount ==
    (tp.pc = "done" /\ tp.min = tp.max) => Len(ticks) >= 1

\* C9 as amended: neither tick algorithm throws; with min = max the calendar
\* algorithm returns at least one tick for every count, and the numeric one
\* returns count + 1 ticks for every count >= 0.
C9_AtLeastOneTick ==
    (tp.pc = "done" /\ tp.min = tp.max) =>
        /\ tp.algo = "time" => Len(ticks) >= 1
        /\ (tp.algo = "numeric" /\ Le(Num(0), tp.count)) =>
              (Len(ticks) = tp.count.n + 1 /\ Len(ticks) >= 1)

C9_Witness ==
    /\ tp.pc = "done"
    /\ tp.min = tp.max
    /\ tp.algo = "time"
    /\ Len(ticks) = 1
    /\ ticks[1].n < tp.min.n

\* t is a natural boundary of the interval
IsBoundary(interval, t) ==
    CASE interval = "minute" -> t % Minute = 0
      [] interval = "hour" -> t % Hour = 0
      [] interval = "day" -> t % Day = 0
      [] interval = "week" -> t % Day = 0 /\ Fields(t).day = 0
      [] interval = "month" -> t % Day = 0 /\ Fields(t).date = 1
      [] OTHER -> t % Day = 0 /\ Fields(t).date = 1 /\ Fields(t).month = 0

\* no boundary of the interval lies after the boundary b and at or before t
SamePeriod(interval, b, t) ==
    /\ b <= t
    /\ CASE interval = "minute" -> t - b < Minute
         [] interval = "hour" -> t - b < Hour
         [] interval = "day" -> t - b < Day
         [] interval = "week" -> t - b < 7 * Day
         [] interval = "month" -> Fields(b).year = Fields(t).year /\ Fields(b).month = Fields(t).month
         [] OTHER -> Fields(b).year = Fields(t).year

\* the boundary b is exactly n units of the interval after the boundary a
UnitsApart(interval, a, b, n) ==
    CASE interval = "minute" -> b - a = n * Minute
      [] interval = "hour" -> b - a = n * Hour
      [] interval = "day" -> b - a = n * Day
      [] interval = "week" -> b - a = n * 7 * Day
      [] interval = "month" ->
            (Fields(b).year * 12 + Fields(b).month) - (Fields(a).year * 12 + Fields(a).month) = n
      [] OTHER -> Fields(b).year - Fields(a).year = n

\* max(1, round(range / (count * unit))) in integers, count # 0
ExpectedStep(range, count, unit) ==
    LET num == IF count > 0 THEN 2 * range + count * unit ELSE -(2 * range + count * unit)
        den == 2 * Abs(count) * unit
        r == num \div den
    IN  IF r > 1 THEN r ELSE 1

\* the shortest an interval gets
ShortestUnit(interval) ==
    CASE interval = "minute" -> Minute
      [] interval = "hour" -> Hour
      [] interval = "day" -> Day
      [] interval = "week" -> 7 * Day
      [] interval = "month" -> 28 * Day
      [] OTHER -> 365 * Day

\* C10: createTimeTickValues: the first tick is min rounded down to the
\* boundary of the chosen interval; every later tick is the one before it
\* advanced by exactly step units of the interval, step being
\* max(1, round(range / (count * unitMs))); every tick is <= max and the
\* ticks increase strictly, so only finitely many are emitted.
C10_TimeTicks ==
    tp.algo = "time" =>
        /\ Len(ticks) >= 1 =>
              /\ IsBoundary(tp.interval, ticks[1].n)
              /\ SamePeriod(tp.interval, ticks[1].n, tp.min.n)
              /\ Len(ticks) <= (tp.max.n - ticks[1].n) \div ShortestUnit(tp.interval) + 1
        /\ tp.count.n # 0 =>
              tp.step = Num(ExpectedStep(tp.max.n - tp.min.n, tp.count.n,
                                         IntervalMs(tp.interval)))
        /\ tp.count.n = 0 => Len(ticks) <= 1
        /\ \A i \in 1..Len(ticks) :
              /\ ticks[i].k = "date"
              /\ ticks[i].n <= tp.max.n
              /\ IsBoundary(tp.interval, ticks[i].n)
        /\ \A i \in 1..(Len(ticks) - 1) :
              /\ ticks[i].n < ticks[i + 1].n
              /\ UnitsApart(tp.interval, ticks[i].n, ticks[i + 1].n, tp.step.n)

C10_Witness ==
    /\ tp.algo = "time"
    /\ tp.pc = "done"
    /\ tp.interval = "month"
    /\ tp.step = Num(1)
    /\ Len(ticks) = 5
    /\ ticks[1].n < tp.min.n

(***************************************************************************)
(* The curve builders: src/charts/LineChart.js.  A path definition is the  *)
(* sequence of the commands that the code joins with ' '; a command is its *)
(* letter and its numbers, so '' is the empty sequence.  A screen point is *)
(* <<x, y>>.                                                               *)
(***************************************************************************)
\* most points of a dataset
MaxPts == 4

Cmd(c, a) == [c |-> c, a |-> a]

generateLinearPath(points) ==
    IF Len(points) = 0 THEN <<>>
    ELSE <<Cmd("M", points[1])>>
           \o [i \in 1..(Len(points) - 1) |-> Cmd("L", points[i + 1])]

\* a staircase that goes to the new y before it goes to the new x
generateStepPath_VerticalFirst(points) ==
    IF Len(points) = 0 THEN <<>>
    ELSE <<Cmd("M", points[1])>>
           \o [j \in 1..(2 * (Len(points) - 1)) |->
                 IF j % 2 = 1 THEN Cmd("V", <<points[(j + 1) \div 2 + 1][2]>>)
                 ELSE Cmd("H", <<points[j \div 2 + 1][1]>>)]

generateStepPath(points) ==
    IF Len(points) = 0 THEN <<>>
    ELSE <<Cmd("M", points[1])>>
           \o [j \in 1..(2 * (Len(points) - 1)) |->
                 IF j % 2 = 1 THEN Cmd("H", <<points[(j + 1) \div 2 + 1][1]>>)
                 ELSE Cmd("V", <<points[j \div 2 + 1][2]>>)]

\* control points on either side of p0 in place of p1
getControlPoints_AroundP0(p0, p1, p2, t) ==
    LET d1x == Mul(Sub(p2[1], p0[1]), t)
        d1y == Mul(Sub(p2[2], p0[2]), t)
    IN  <<<<Sub(p0[1], d1x), Sub(p0[2], d1y)>>, <<Add(p0[1], d1x), Add(p0[2], d1y)>>>>

getControlPoints(p0, p1, p2, t) ==
    LET d1x == Mul(Sub(p2[1], p0[1]), t)
        d1y == Mul(Sub(p2[2], p0[2]), t)
    IN  <<<<Sub(p1[1], d1x), Sub(p1[2], d1y)>>, <<Add(p1[1], d1x), Add(p1[2], d1y)>>>>

\* the segment that ends at points[i + 1]
generateCardinalPath(points, tension) ==
    IF Len(points) < 2 THEN generateLinearPath(points)
    ELSE IF Len(points) < 3 THEN generateLinearPath(points)
    ELSE <<Cmd("M", points[1])>>
           \o [i \in 1..(Len(points) - 1) |->
                 LET current == points[i + 1]
                     prev == points[i]
                     next == IF i < Len(points) - 1 THEN points[i + 2] ELSE current
                     cps == IF i > 1 THEN getControlPoints(prev, current, next, tension)
                            ELSE getControlPoints(points[1], points[1], points[2], tension)
                 IN  Cmd("C", <<cps[1][1], cps[1][2], cps[2][1], cps[2][2],
                                current[1], current[2]>>)]

\* the slope of the segment from points[i] to points[i + 1]
Slope(points, i) ==
    Div(Sub(points[i + 1][2], points[i][2]), Sub(points[i + 1][1], points[i][1]))

\* tangents that are the slopes of the segments, left as initialised
MonotoneTangent_SegmentSlopes(points, i) ==
    IF i = Len(points) THEN Slope(points, i - 1) ELSE Slope(points, i)

\* tangents[i - 1] when the loops have run: the first keeps the slope of the
\* first segment, the last is given the slope of the last segment, and the
\* loop overwrites each tangent between them in place, reading the tangent
\* it has just written for the point before
RECURSIVE MonotoneTangent(_, _)
MonotoneTangent(points, i) ==
    IF i = 1 THEN Slope(points, 1)
    ELSE IF i = Len(points) THEN Slope(points, i - 1)
    ELSE LET a == MonotoneTangent(points, i - 1)
             b == Slope(points, i)
         IN  IF Le(Mul(a, b), Num(0)) THEN Num(0) ELSE Div(Mul(a, b), Add(a, b))

\* the cubic segment from points[i] to points[i + 1]
MonotoneSegment(points, i) ==
    LET dx == Div(Sub(points[i + 1][1], points[i][1]), Num(3))
        cp1x == Add(points[i][1], dx)
        cp1y == Add(points[i][2], Mul(dx, MonotoneTangent(points, i)))
        cp2x == Sub(points[i + 1][1], dx)
        cp2y == Sub(points[i + 1][2], Mul(dx, MonotoneTangent(points, i + 1)))
    IN  Cmd("C", <<cp1x, cp1y, cp2x, cp2y, points[i + 1][1], points[i + 1][2]>>)

\* the monotone builder falling back to straight lines below two points only
generateMonotonePath_FallbackBelow2(points) ==
    IF Len(points) < 2 THEN generateLinearPath(points)
    ELSE <<Cmd("M", points[1])>>
           \o [i \in 1..(Len(points) - 1) |-> MonotoneSegment(points, i)]

generateMonotonePath(points) ==
    IF Len(points) < 3 THEN generateLinearPath(points)
    ELSE <<Cmd("M", points[1])>>
           \o [i \in 1..(Len(points) - 1) |-> MonotoneSegment(points, i)]

\* the default tension of generateCardinalPath
DefaultTension == Fin(1, 2)

\* the points that generateLinePath maps the data to
ScreenPoints(c) ==
    LET kept == SelectSeq(c.data, LAMBDA d : d.x # Undefined /\ d.y # Undefined)
    IN  [i \in 1..Len(kept) |-> <<LinearScale_scale(c.xScale, kept[i].x).val,
                                  LinearScale_scale(c.yScale, kept[i].y).val>>]

generateLinePath(c) ==
    LET points == ScreenPoints(c)
    IN  IF Len(points) = 0 THEN <<>>
        ELSE CASE c.curve = "step" -> generateStepPath(points)
               [] c.curve = "cardinal" -> generateCardinalPath(points, DefaultTension)
               [] c.curve = "monotone" -> generateMonotonePath(points)
               [] OTHER -> generateLinearPath(points)

Curves == {"linear", "step", "cardinal", "monotone"}

\* the tensions that a caller of generateCardinalPath gives
Tensions == {Num(0), Fin(1, 4), Num(1)}

\* x fields of n points, strictly increasing
XFields(n) == {xs \in [1..n -> 0..MaxPts] : \A i \in 1..(n - 1) : xs[i] < xs[i + 1]}
\* y fields of n points, a point may lack its y
YFields(n) == [1..n -> {Undefined, Num(0), Num(1), Num(2)}]

\* the datasets of n points
Datasets(n) ==
    {[i \in 1..n |-> [x |-> Num(xs[i]), y |-> ys[i]]] : xs \in XFields(n), ys \in YFields(n)}

\* the y scale draws upwards (range [innerHeight, 0]) or downwards
YRanges == {<<Num(2), Num(0)>>, <<Num(0), Num(4)>>}

\* new LineChart({data, options: {curve}}) with its scales updated
InitCurve ==
    /\ \E curve \in Curves, data \in UNION {Datasets(n) : n \in 0..MaxPts},
            yRange \in YRanges :
         chart = [pc |-> "ready", curve |-> curve, data |-> data,
                  xScale |-> [kind |-> "linear", domain |-> <<Num(0), Num(MaxPts)>>,
                              range |-> <<Num(0), Num(2 * MaxPts)>>, base |-> 10],
                  yScale |-> [kind |-> "linear", domain |-> <<Num(0), Num(2)>>,
                              range |-> yRange, base |-> 10],
                  tension |-> DefaultTension, points |-> <<>>, path |-> <<>>]
    /\ scale = chart.xScale
    /\ ret = Result("new", NaN, Returns(NaN, FALSE))
    /\ tp = IdleTicks
    /\ ticks = <<>>
    /\ ind = NoInd
    /\ stack = NoStack

\* renderData: the path of the dataset's line
DoLinePath ==
    /\ chart.pc = "ready"
    /\ chart' = [chart EXCEPT !.pc = "drawn", !.points = ScreenPoints(chart),
                              !.path = generateLinePath(chart)]
    /\ UNCHANGED <<scale, ret, tp, ticks, ind, stack>>

\* a call of generateCardinalPath on the points of the line with a tension
\* of the caller's
DoCardinalPath ==
    /\ chart.pc = "drawn"
    /\ chart.curve = "cardinal"
    /\ \E tension \in Tensions :
         chart' = [chart EXCEPT !.pc = "spline", !.tension = tension,
                                !.path = generateCardinalPath(chart.points, tension)]
    /\ UNCHANGED <<scale, ret, tp, ticks, ind, stack>>

NextCurve ==
    \/ DoLinePath
    \/ DoCardinalPath

SpecCurve == InitCurve /\ [][NextCurve]_vars

\* the points given to the builder have strictly increasing x and
\* non-decreasing y
MonotoneInput(points) ==
    \A i \in 1..(Len(points) - 1) :
      /\ Lt(points[i][1], points[i + 1][1])
      /\ Le(points[i][2], points[i + 1][2])

\* C11: a monotone path over three or more points with strictly increasing
\* x and non-decreasing y is made of cubic segments in each of which the y
\* of the start point, of the first control point, of the second control
\* point and of the end point are in non-decreasing order
C11_MonotoneNoOvershoot ==
    (chart.pc = "drawn" /\ chart.curve = "monotone" /\ Len(chart.points) >= 3
       /\ MonotoneInput(chart.points)) =>
      /\ Len(chart.path) = Len(chart.points)
      /\ \A i \in 1..(Len(chart.points) - 1) :
           LET seg == chart.path[i + 1]
           IN  /\ seg.c = "C"
               /\ Le(chart.points[i][2], seg.a[2])
               /\ Le(seg.a[2], seg.a[4])
               /\ Le(seg.a[4], seg.a[6])
               /\ seg.a[6] = chart.points[i + 1][2]

\* a drawn monotone path over four rising points whose slopes differ
C11_Witness ==
    /\ chart.pc = "drawn" /\ chart.curve = "monotone" /\ Len(chart.points) = 4
    /\ MonotoneInput(chart.points)
    /\ Lt(Slope(chart.points, 1), Slope(chart.points, 2))
    /\ Lt(Slope(chart.points, 3), Slope(chart.points, 2))
    /\ Lt(Num(0), Slope(chart.points, 3))

\* C12: with fewer than 3 points the cardinal and the monotone mode return
\* exactly what the linear mode returns for the same points
C12_FallbackToLinear ==
    (chart.pc = "drawn" /\ chart.curve \in {"cardinal", "monotone"}
       /\ Len(chart.points) < 3) =>
      chart.path = generateLinePath([chart EXCEPT !.curve = "linear"])

\* a monotone path drawn as a straight line between two points
C12_Witness ==
    /\ chart.pc = "drawn" /\ chart.curve = "monotone" /\ Len(chart.points) = 2
    /\ chart.path = <<Cmd("M", chart.points[1]), Cmd("L", chart.points[2])>>

\* twice the product over the sum
HarmonicMean(a, b) == Div(Mul(Num(2), Mul(a, b)), Add(a, b))

\* the tangent that the description gives point i: the slope of the segment
\* at either end, and between them the harmonic mean of the slopes of the
\* two segments that meet at the point, or 0 when their product is not
\* positive
HarmonicTangent(points, i) ==
    IF i = 1 THEN Slope(points, 1)
    ELSE IF i = Len(points) THEN Slope(points, i - 1)
    ELSE LET a == Slope(points, i - 1)
             b == Slope(points, i)
         IN  IF Le(Mul(a, b), Num(0)) THEN Num(0) ELSE HarmonicMean(a, b)

\* C21 as stated: in a monotone path over three or more points the segment
\* from point i to point i + 1 has its control points at one third and two
\* thirds of the horizontal span, on the tangents at the two points, where
\* the tangent of the first and of the last point is the slope of the first
\* and of the last segment and the tangent of a point between them is the
\* harmonic mean of the slopes of its two segments, or zero when these
\* slopes have opposite sign or one of them is zero
C21_HarmonicTangents ==
    (chart.pc = "drawn" /\ chart.curve = "monotone" /\ Len(chart.points) >= 3) =>
      /\ Len(chart.path) = Len(chart.points)
      /\ \A i \in 1..(Len(chart.points) - 1) :
           LET p == chart.points
               dx == Div(Sub(p[i + 1][1], p[i][1]), Num(3))
           IN  chart.path[i + 1] =
                 Cmd("C", <<Add(p[i][1], dx),
                            Add(p[i][2], Mul(dx, HarmonicTangent(p, i))),
                            Sub(p[i + 1][1], dx),
                            Sub(p[i + 1][2], Mul(dx, HarmonicTangent(p, i + 1))),
                            p[i + 1][1], p[i + 1][2]>>)

\* C26: a cardinal path over n >= 3 points with tension t is a move to the
\* first point followed by one cubic segment for each consecutive pair of
\* points, ending at the second point of the pair, with control points
\* cp1 = p1 - t*(p2 - p0) and cp2 = p1 + t*(p2 - p0); for the first segment
\* p0 and p1 are both the first point and p2 is the second point, for
\* every other segment p1 is the point where the segment ends and p0 and p2
\* are the points before and after it, the last point being its own
\* successor
C26_CardinalControlPoints ==
    (chart.pc \in {"drawn", "spline"} /\ chart.curve = "cardinal"
       /\ Len(chart.points) >= 3) =>
      LET p == chart.points
          n == Len(chart.points)
          t == chart.tension
      IN  /\ Len(chart.path) = n
          /\ chart.path[1] = Cmd("M", p[1])
          /\ \A i \in 1..(n - 1) :
               LET p0 == p[i]
                   p1 == IF i = 1 THEN p[1] ELSE p[i + 1]
                   p2 == IF i = 1 THEN p[2]
                         ELSE IF i + 2 <= n THEN p[i + 2] ELSE p[i + 1]
               IN  chart.path[i + 1] =
                     Cmd("C", <<Sub(p1[1], Mul(t, Sub(p2[1], p0[1]))),
                                Sub(p1[2], Mul(t, Sub(p2[2], p0[2]))),
                                Add(p1[1], Mul(t, Sub(p2[1], p0[1]))),
                                Add(p1[2], Mul(t, Sub(p2[2], p0[2]))),
                                p[i + 1][1], p[i + 1][2]>>)

\* generateCardinalPath called with tension 1/4 on four points that are not
\* on one line
C26_Witness ==
    /\ chart.pc = "spline" /\ chart.tension = Fin(1, 4) /\ Len(chart.points) = 4
    /\ Len(chart.path) = 4
    /\ Slope(chart.points, 1) # Slope(chart.points, 2)
    /\ Slope(chart.points, 2) # Slope(chart.points, 3)

\* C27: in every mode the path of no points is empty and the path of n >= 1
\* points starts with a move to the first point and goes through the points
\* in their order: the linear path has n - 1 straight segments, the k-th
\* ending at point k + 1; the step path has for each pair of consecutive
\* points a horizontal segment to the x of the second, which stays at the y
\* of the first, followed by a vertical segment to the y of the second; the
\* cardinal and the monotone path have n - 1 segments, the k-th ending at
\* point k + 1, cubic ones when n >= 3
C27_PathVisitsPoints ==
    chart.pc \in {"drawn", "spline"} =>
      LET p == chart.points
          n == Len(chart.points)
          path == chart.path
      IN  IF n = 0
          THEN /\ path = <<>>
               /\ generateLinearPath(<<>>) = <<>>
               /\ generateStepPath(<<>>) = <<>>
               /\ generateCardinalPath(<<>>, chart.tension) = <<>>
               /\ generateMonotonePath(<<>>) = <<>>
          ELSE /\ path[1] = Cmd("M", p[1])
               /\ CASE chart.curve = "linear" ->
                         /\ Len(path) = n
                         /\ \A k \in 1..(n - 1) : path[k + 1] = Cmd("L", p[k + 1])
                    [] chart.curve = "step" ->
                         /\ Len(path) = 2 * n - 1
                         /\ \A k \in 1..(n - 1) :
                              /\ path[2 * k] = Cmd("H", <<p[k + 1][1]>>)
                              /\ path[2 * k + 1] = Cmd("V", <<p[k + 1][2]>>)
                    [] OTHER ->
                         /\ Len(path) = n
                         /\ \A k \in 1..(n - 1) :
                              /\ path[k + 1].c = IF n >= 3 THEN "C" ELSE "L"
                              /\ Len(path[k + 1].a) = IF n >= 3 THEN 6 ELSE 2
                              /\ path[k + 1].a[Len(path[k + 1].a) - 1] = p[k + 1][1]
                              /\ path[k + 1].a[Len(path[k + 1].a)] = p[k + 1][2]

\* a staircase drawn over three points that differ in y
C27_Witness ==
    /\ chart.pc = "drawn" /\ chart.curve = "step" /\ Len(chart.points) = 3
    /\ Len(chart.path) = 5
    /\ chart.points[1][2] # chart.points[2][2]
    /\ chart.points[2][2] # chart.points[3][2]

(***************************************************************************)
(* The technical indicators: calculateIndicator of src/components/         *)
(* Tooltip.js and the studies of src/charts/LineChart.js.  A series is a   *)
(* sequence of points [x, y], indexed from 0 in the code and from 1 here:  *)
(* data[i] of the code is data[i + 1].  A call returns [thrown, out, arr,  *)
(* data]: whether it threw, the points it returned, which array holds     *)
(* them ("new", or "none" when nothing is returned), and the series as the *)
(* call leaves it.                                                         *)
(***************************************************************************)
\* most points of a series
MaxLen == 4

Emits(out, data) == [thrown |-> FALSE, out |-> out, arr |-> "new", data |-> data]
ThrowsError(data) == [thrown |-> TRUE, out |-> <<>>, arr |-> "none", data |-> data]
Skips(data) == [thrown |-> FALSE, out |-> <<>>, arr |-> "none", data |-> data]

\* const { period = 14 } = params: the default replaces undefined only
Default(v, dflt) == IF v = Undefined THEN dflt ELSE v

Ge(a, b) == Le(b, a)
IsInteger(p) == p.k = "fin" /\ p.d = 1
IsNumber(v) == v.k \in {"fin", "nan", "pinf", "ninf"}

\* period <= 0 || !Number.isInteger(period)
BadPeriod(period) == Le(period, Num(0)) \/ ~IsInteger(period)

\* data[i][valueField]
Field(data, i) == data[i + 1].y

\* a window sum that leaves out the value at index i
RECURSIVE WindowSum_SkipsCurrent(_, _, _, _, _)
WindowSum_SkipsCurrent(data, i, period, j, sum) ==
    IF Lt(Num(j), period)
    THEN WindowSum_SkipsCurrent(data, i, period, j + 1,
                                IF j = 0 THEN sum ELSE Add(sum, Field(data, i - j)))
    ELSE sum

\* let sum = 0; for (let j = 0; j < period; j++) sum += data[i - j][valueField]
RECURSIVE WindowSum(_, _, _, _, _)
WindowSum(data, i, period, j, sum) ==
    IF Lt(Num(j), period)
    THEN WindowSum(data, i, period, j + 1, Add(sum, Field(data, i - j)))
    ELSE sum

\* a point of a derived series; a field the code does not write is undefined
Point(x, y, original) == [x |-> x, y |-> y, original |-> original]

\* an SMA that emits a point for every index, with the mean of the values
\* seen so far where the window is not full
RECURSIVE SMALoop_ZeroFilled(_, _, _, _)
SMALoop_ZeroFilled(data, period, i, result) ==
    IF i >= Len(data) THEN Emits(result, data)
    ELSE LET w == IF Lt(Num(i), Sub(period, Num(1))) THEN Num(i + 1) ELSE period
         IN  SMALoop_ZeroFilled(data, period, i + 1,
               Append(result, Point(data[i + 1].x,
                                    Div(WindowSum(data, i, w, 0, Num(0)), w),
                                    Field(data, i))))

\* the loop of calculateSMA of Tooltip.js from index i on
RECURSIVE SMALoop(_, _, _, _)
SMALoop(data, period, i, result) ==
    IF i >= Len(data) THEN Emits(result, data)
    ELSE IF Lt(Num(i), Sub(period, Num(1))) THEN SMALoop(data, period, i + 1, result)
    ELSE IF \E j \in 0..(period.n - 1) : ~IsNumber(Field(data, i - j))
    THEN ThrowsError(data)
    ELSE SMALoop(data, period, i + 1,
           Append(result, Point(data[i + 1].x,
                                Div(WindowSum(data, i, period, 0, Num(0)), period),
                                Field(data, i))))

calculateSMA(data, params) ==
    LET period == Default(params.period, Num(14))
    IN  IF BadPeriod(period) THEN ThrowsError(data)
        ELSE SMALoop(data, period, 0, <<>>)

\* an EMA that starts from the value at index period - 1 in place of the
\* mean of the first period values
RECURSIVE EMALoop_SeedFirstValue(_, _, _, _, _, _)
EMALoop_SeedFirstValue(data, period, orig, i, ema, result) ==
    IF i >= Len(data) THEN Emits(result, data)
    ELSE IF Lt(Num(i), Sub(period, Num(1)))
    THEN EMALoop_SeedFirstValue(data, period, orig, i + 1, ema, result)
    ELSE LET multiplier == Div(Num(2), Add(period, Num(1)))
             e == IF StrictEq(Num(i), Sub(period, Num(1)))
                  THEN Field(data, i)
                  ELSE Add(Mul(Sub(Field(data, i), ema), multiplier), ema)
         IN  EMALoop_SeedFirstValue(data, period, orig, i + 1, e,
               Append(result, Point(data[i + 1].x, e,
                                    IF orig THEN Field(data, i) ELSE Undefined)))

\* the loop of calculateEMA from index i on, in Tooltip.js (orig: the point
\* carries original) and in LineChart.js; ema is null before the loop, which
\* the subtraction and the addition convert to 0
RECURSIVE EMALoop(_, _, _, _, _, _)
EMALoop(data, period, orig, i, ema, result) ==
    IF i >= Len(data) THEN Emits(result, data)
    ELSE IF Lt(Num(i), Sub(period, Num(1)))
    THEN EMALoop(data, period, orig, i + 1, ema, result)
    ELSE LET multiplier == Div(Num(2), Add(period, Num(1)))
             e == IF StrictEq(Num(i), Sub(period, Num(1)))
                  THEN Div(WindowSum(data, i, period, 0, Num(0)), period)
                  ELSE Add(Mul(Sub(Field(data, i), ema), multiplier), ema)
         IN  EMALoop(data, period, orig, i + 1, e,
               Append(result, Point(data[i + 1].x, e,
                                    IF orig THEN Field(data, i) ELSE Undefined)))

calculateEMA(data, params) ==
    LET period == Default(params.period, Num(14))
    IN  IF BadPeriod(period) THEN ThrowsError(data)
        ELSE EMALoop(data, period, TRUE, 0, Null, <<>>)

\* Math.sqrt: exact on the squares of rationals; the root of another
\* positive rational r is kept as [k |-> "surd"] with n/d = r
IsSquare(n) == \E r \in 0..n : r * r = n
Root(n) == CHOOSE r \in 0..n : r * r = n
Sqrt(v) ==
    CASE v.k = "fin" /\ v.n >= 0 /\ IsSquare(v.n) /\ IsSquare(v.d) -> Fin(Root(v.n), Root(v.d))
      [] v.k = "fin" /\ v.n >= 0 -> [k |-> "surd", n |-> v.n, d |-> v.d]
      [] v.k = "pinf" -> PInf
      [] OTHER -> NaN

\* sma + stdDev * deviations (sign 1) and sma - stdDev * deviations (sign
\* -1); with an irrational stdDev the sum of the rational a and of sign
\* times the root of r is kept as [k |-> "band", n/d = a, sign, rn/rd = r]
Band(sma, stdDev, deviations, sign) ==
    IF stdDev.k = "surd"
    THEN IF sma.k = "fin" /\ deviations.k = "fin"
         THEN LET r == Mul(Fin(stdDev.n, stdDev.d), Mul(deviations, deviations))
              IN  [k |-> "band", n |-> sma.n, d |-> sma.d,
                   sign |-> sign * Sgn(deviations), rn |-> r.n, rd |-> r.d]
         ELSE IF sma.k = "nan" \/ deviations.k = "nan" THEN NaN
         ELSE IF sma.k = "fin" THEN Signed(sign * Sgn(deviations))
         ELSE sma
    ELSE IF sign > 0 THEN Add(sma, Mul(stdDev, deviations))
    ELSE Sub(sma, Mul(stdDev, deviations))

\* the sum of the absolute deviations of the window in place of their squares
RECURSIVE SquaredDeviations_Absolute(_, _, _, _, _, _)
SquaredDeviations_Absolute(data, i, period, sma, j, sum) ==
    IF Lt(Num(j), period)
    THEN LET deviation == Sub(Field(data, i - j), sma)
         IN  SquaredDeviations_Absolute(data, i, period, sma, j + 1,
               Add(sum, IF Lt(deviation, Num(0)) THEN Neg(deviation) ELSE deviation))
    ELSE sum

\* sumSquaredDeviations of the window that ends at index i
RECURSIVE SquaredDeviations(_, _, _, _, _, _)
SquaredDeviations(data, i, period, sma, j, sum) ==
    IF Lt(Num(j), period)
    THEN LET deviation == Sub(Field(data, i - j), sma)
         IN  SquaredDeviations(data, i, period, sma, j + 1,
                               Add(sum, Mul(deviation, deviation)))
    ELSE sum

RECURSIVE BollingerLoop(_, _, _, _, _)
BollingerLoop(data, period, deviations, i, result) ==
    IF i >= Len(data) THEN Emits(result, data)
    ELSE IF Lt(Num(i), Sub(period, Num(1)))
    THEN BollingerLoop(data, period, deviations, i + 1, result)
    ELSE LET sma == Div(WindowSum(data, i, period, 0, Num(0)), period)
             stdDev == Sqrt(Div(SquaredDeviations(data, i, period, sma, 0, Num(0)),
                                period))
         IN  BollingerLoop(data, period, deviations, i + 1,
               Append(result, [x |-> data[i + 1].x, middle |-> sma,
                               upper |-> Band(sma, stdDev, deviations, 1),
                               lower |-> Band(sma, stdDev, deviations, -1),
                               original |-> Field(data, i)]))

calculateBollingerBands(data, params) ==
    LET period == Default(params.period, Num(20))
        deviations == Default(params.deviations, Num(2))
    IN  IF BadPeriod(period) THEN ThrowsError(data)
        ELSE IF Le(deviations, Num(0)) THEN ThrowsError(data)
        ELSE BollingerLoop(data, period, deviations, 0, <<>>)

\* an RSI point computed from the ratio avgGain / avgLoss whatever avgLoss is
RSIPoint_UncheckedRatio(data, i, avgGain, avgLoss) ==
    [x |-> data[i + 1].x,
     rsi |-> Sub(Num(100), Div(Num(100), Add(Num(1), Div(avgGain, avgLoss)))),
     avgGain |-> avgGain, avgLoss |-> avgLoss, original |-> Field(data, i)]

\* the point that calculateRSI pushes at index i
RSIPoint(data, i, avgGain, avgLoss) ==
    [x |-> data[i + 1].x,
     rsi |-> IF StrictEq(avgLoss, Num(0)) THEN Num(100)
             ELSE Sub(Num(100), Div(Num(100), Add(Num(1), Div(avgGain, avgLoss)))),
     avgGain |-> avgGain, avgLoss |-> avgLoss, original |-> Field(data, i)]

\* an RSI whose averages after the first are plain means of the trailing
\* period changes
RECURSIVE RSILoop_TrailingWindow(_, _, _, _, _, _)
RSILoop_TrailingWindow(data, period, i, gains, losses, result) ==
    IF i >= Len(data) THEN Emits(result, data)
    ELSE IF i < period.n
    THEN RSILoop_TrailingWindow(data, period, i + 1, gains, losses, result)
    ELSE LET up(j) == LET c == Sub(Field(data, j), Field(data, j - 1))
                      IN  IF Ge(c, Num(0)) THEN c ELSE Num(0)
             down(j) == LET c == Sub(Field(data, j), Field(data, j - 1))
                        IN  IF Ge(c, Num(0)) THEN Num(0) ELSE Neg(c)
             SumUp[j \in (i - period.n)..i] ==
                 IF j = i - period.n THEN Num(0) ELSE Add(SumUp[j - 1], up(j))
             SumDown[j \in (i - period.n)..i] ==
                 IF j = i - period.n THEN Num(0) ELSE Add(SumDown[j - 1], down(j))
         IN  RSILoop_TrailingWindow(data, period, i + 1, gains, losses,
               Append(result, RSIPoint(data, i, Div(SumUp[i], period),
                                       Div(SumDown[i], period))))

\* the loop of calculateRSI from index i on (index 0 is skipped)
RECURSIVE RSILoop(_, _, _, _, _, _)
RSILoop(data, period, i, gains, losses, result) ==
    IF i >= Len(data) THEN Emits(result, data)
    ELSE LET change == Sub(Field(data, i), Field(data, i - 1))
         IN  IF i <= period.n
             THEN LET g == IF Ge(change, Num(0)) THEN Add(gains, change) ELSE gains
                      l == IF Ge(change, Num(0)) THEN losses ELSE Sub(losses, change)
                  IN  IF i < period.n THEN RSILoop(data, period, i + 1, g, l, result)
                      ELSE RSILoop(data, period, i + 1, g, l,
                             Append(result,
                                    RSIPoint(data, i, Div(g, period), Div(l, period))))
             ELSE LET previousAvgGain == result[Len(result)].avgGain
                      previousAvgLoss == result[Len(result)].avgLoss
                      currentGain == IF Ge(change, Num(0)) THEN change ELSE Num(0)
                      currentLoss == IF Lt(change, Num(0)) THEN Neg(change) ELSE Num(0)
                      avgGain == Div(Add(Mul(previousAvgGain, Sub(period, Num(1))),
                                         currentGain), period)
                      avgLoss == Div(Add(Mul(previousAvgLoss, Sub(period, Num(1))),
                                         currentLoss), period)
                  IN  RSILoop(data, period, i + 1, gains, losses,
                              Append(result, RSIPoint(data, i, avgGain, avgLoss)))

\* an RSI that writes each value into the point it was computed for and
\* returns the series it was given
calculateRSI_InPlace(data, params) ==
    LET period == Default(params.period, Num(14))
        r == RSILoop(data, period, 1, Num(0), Num(0), <<>>)
        written == [i \in 1..Len(data) |->
                      IF i > period.n THEN [data[i] EXCEPT !.y = r.out[i - period.n].rsi]
                      ELSE data[i]]
    IN  IF BadPeriod(period) THEN ThrowsError(data)
        ELSE [thrown |-> FALSE, out |-> written, arr |-> "input", data |-> written]

calculateRSI(data, params) ==
    LET period == Default(params.period, Num(14))
    IN  IF BadPeriod(period) THEN ThrowsError(data)
        ELSE RSILoop(data, period, 1, Num(0), Num(0), <<>>)

\* fastEMAs and slowEMAs of calculateMACD from index i on: null where the
\* EMA has no value yet
RECURSIVE EMAs(_, _, _, _, _)
EMAs(data, period, i, ema, acc) ==
    IF i >= Len(data) THEN acc
    ELSE IF i < period.n - 1 THEN EMAs(data, period, i + 1, ema, Append(acc, Null))
    ELSE LET multiplier == Div(Num(2), Add(period, Num(1)))
             e == IF i = period.n - 1
                  THEN Div(WindowSum(data, i, period, 0, Num(0)), period)
                  ELSE Add(Mul(Sub(Field(data, i), ema), multiplier), ema)
         IN  EMAs(data, period, i + 1, e, Append(acc, e))

\* macdLine
MACDLine(data, fastPeriod, slowPeriod) ==
    LET fastEMAs == EMAs(data, fastPeriod, 0, Null, <<>>)
        slowEMAs == EMAs(data, slowPeriod, 0, Null, <<>>)
    IN  [i1 \in 1..Len(data) |->
           IF i1 - 1 < slowPeriod.n - 1 \/ fastEMAs[i1] = Null \/ slowEMAs[i1] = Null
           THEN Null
           ELSE Sub(fastEMAs[i1], slowEMAs[i1])]

\* sum and count of the macdLine values that seed the signal line at index i
RECURSIVE SignalSeed(_, _, _, _, _, _)
SignalSeed(macdLine, i, signalPeriod, j, sum, count) ==
    IF j < signalPeriod.n
    THEN IF i - j >= 0 /\ macdLine[i - j + 1] # Null
         THEN SignalSeed(macdLine, i, signalPeriod, j + 1,
                         Add(sum, macdLine[i - j + 1]), count + 1)
         ELSE SignalSeed(macdLine, i, signalPeriod, j + 1, sum, count)
    ELSE IF count > 0 THEN Div(sum, Num(count)) ELSE Null

\* signalLine from index i on
RECURSIVE SignalLine(_, _, _, _, _, _)
SignalLine(macdLine, slowPeriod, signalPeriod, i, signalEMA, acc) ==
    IF i >= Len(macdLine) THEN acc
    ELSE IF i < slowPeriod.n + signalPeriod.n - 2 \/ macdLine[i + 1] = Null
    THEN SignalLine(macdLine, slowPeriod, signalPeriod, i + 1, signalEMA,
                    Append(acc, Null))
    ELSE IF i = slowPeriod.n + signalPeriod.n - 2
    THEN LET seed == SignalSeed(macdLine, i, signalPeriod, 0, Num(0), 0)
         IN  SignalLine(macdLine, slowPeriod, signalPeriod, i + 1, seed,
                        Append(acc, seed))
    ELSE IF signalEMA # Null
    THEN LET signalMultiplier == Div(Num(2), Add(signalPeriod, Num(1)))
             e == Add(Mul(Sub(macdLine[i + 1], signalEMA), signalMultiplier),
                      signalEMA)
         IN  SignalLine(macdLine, slowPeriod, signalPeriod, i + 1, e, Append(acc, e))
    ELSE SignalLine(macdLine, slowPeriod, signalPeriod, i + 1, signalEMA,
                    Append(acc, Null))

\* a MACD point whose histogram is signal - macd
MACDPoint_SignalMinusMacd(data, i, macd, signal) ==
    [x |-> data[i + 1].x, macd |-> macd, signal |-> signal,
     histogram |-> Sub(signal, macd), original |-> Field(data, i)]

\* the point that calculateMACD pushes at index i
MACDPoint(data, i, macd, signal) ==
    [x |-> data[i + 1].x, macd |-> macd, signal |-> signal,
     histogram |-> Sub(macd, signal), original |-> Field(data, i)]

\* the loop that combines the two lines into the result, from index i on
RECURSIVE MACDResult(_, _, _, _, _)
MACDResult(data, macdLine, signalLine, i, result) ==
    IF i >= Len(data) THEN Emits(result, data)
    ELSE IF macdLine[i + 1] = Null \/ signalLine[i + 1] = Null
    THEN MACDResult(data, macdLine, signalLine, i + 1, result)
    ELSE MACDResult(data, macdLine, signalLine, i + 1,
           Append(result, MACDPoint(data, i, macdLine[i + 1], signalLine[i + 1])))

calculateMACD(data, params) ==
    LET fastPeriod == Default(params.fastPeriod, Num(12))
        slowPeriod == Default(params.slowPeriod, Num(26))
        signalPeriod == Default(params.signalPeriod, Num(9))
    IN  IF BadPeriod(fastPeriod) \/ BadPeriod(slowPeriod) \/ BadPeriod(signalPeriod)
        THEN ThrowsError(data)
        ELSE LET macdLine == MACDLine(data, fastPeriod, slowPeriod)
                 signalLine == SignalLine(macdLine, slowPeriod, signalPeriod, 0, Null,
                                          <<>>)
             IN  MACDResult(data, macdLine, signalLine, 0, <<>>)

\* calculateIndicator of Tooltip.js, for the five indicators it knows
calculateIndicator(indicator, data, params) ==
    IF Len(data) = 0 THEN Emits(<<>>, data)
    ELSE CASE indicator = "sma" -> calculateSMA(data, params)
           [] indicator = "ema" -> calculateEMA(data, params)
           [] indicator = "bollinger" -> calculateBollingerBands(data, params)
           [] indicator = "rsi" -> calculateRSI(data, params)
           [] indicator = "macd" -> calculateMACD(data, params)
           [] OTHER -> ThrowsError(data)

\* LineChart.calculateSMA: the loop from index i on
RECURSIVE LineChart_calculateSMA(_, _, _, _)
LineChart_calculateSMA(data, period, i, result) ==
    IF i >= Len(data) THEN Emits(result, data)
    ELSE IF Lt(Num(i), Sub(period, Num(1)))
    THEN LineChart_calculateSMA(data, period, i + 1, result)
    ELSE LineChart_calculateSMA(data, period, i + 1,
           Append(result, Point(data[i + 1].x,
                                Div(WindowSum(data, i, period, 0, Num(0)), period),
                                Undefined)))

LineChart_calculateEMA(data, period) == EMALoop(data, period, FALSE, 0, Null, <<>>)

\* LineChart.processStudies for one study of the dataset
processStudies(type, data, params) ==
    IF Len(data) = 0 THEN Skips(data)
    ELSE CASE type = "sma" ->
                LineChart_calculateSMA(data, Default(params.period, Num(14)), 0, <<>>)
           [] type = "ema" ->
                LineChart_calculateEMA(data, Default(params.period, Num(14)))
           [] OTHER -> Skips(data)

\* the values of a series; a point may lack its value
Prices == {Num(1), Num(2), Num(4)}

\* the series of the end-to-end scenario
ExampleSeries ==
    <<[x |-> Num(0), y |-> Num(10)], [x |-> Num(1), y |-> Num(12)],
      [x |-> Num(2), y |-> Num(9)], [x |-> Num(3), y |-> Num(15)]>>

\* the series of n points
Series(n) ==
    {[i \in 1..n |-> [x |-> Num(i - 1), y |-> ys[i]]] :
       ys \in [1..n -> Prices \cup {Undefined}]}

\* period parameters: absent, not positive, positive integers, not an integer
Periods == {Undefined, Num(-1), Num(0), Num(1), Num(2), Num(3), Fin(3, 2)}
BadPeriods == {Num(-1), Num(0), Fin(3, 2)}

NoParams == [period |-> Undefined, deviations |-> Undefined, fastPeriod |-> Undefined,
             slowPeriod |-> Undefined, signalPeriod |-> Undefined]

MACDParams ==
    {[NoParams EXCEPT !.fastPeriod = f, !.slowPeriod = s, !.signalPeriod = g] :
       f \in {Num(1), Num(2), Num(3)}, s \in {Num(1), Num(2), Num(3)},
       g \in {Num(1), Num(2), Num(3)}}
      \cup {[NoParams EXCEPT !.fastPeriod = b] : b \in BadPeriods}
      \cup {[NoParams EXCEPT !.slowPeriod = b] : b \in BadPeriods}
      \cup {[NoParams EXCEPT !.signalPeriod = b] : b \in BadPeriods}
      \cup {NoParams}

\* the calls: through calculateIndicator ("module") and through the studies
\* of a LineChart ("chart")
Calls ==
    {[entry |-> "module", name |-> n, params |-> [NoParams EXCEPT !.period = p]] :
       n \in {"sma", "ema", "rsi"}, p \in Periods}
      \cup {[entry |-> "module", name |-> "bollinger",
             params |-> [NoParams EXCEPT !.period = p, !.deviations = v]] :
              p \in Periods, v \in {Undefined, Num(0), Num(1)}}
      \cup {[entry |-> "module", name |-> "macd", params |-> q] : q \in MACDParams}
      \cup {[entry |-> "chart", name |-> n, params |-> [NoParams EXCEPT !.period = p]] :
              n \in {"sma", "ema"}, p \in Periods}

IndicatorCall(call, data) ==
    IF call.entry = "module" THEN calculateIndicator(call.name, data, call.params)
    ELSE processStudies(call.name, data, call.params)

\* a series and the call that a caller is about to make on it
InitInd ==
    /\ \E data \in UNION {Series(n) : n \in 0..MaxLen} \cup {ExampleSeries},
            call \in Calls :
         ind = [pc |-> "ready", call |-> call, given |-> data, data |-> data,
                thrown |-> FALSE, out |-> <<>>, arr |-> "none",
                first |-> [thrown |-> FALSE, out |-> <<>>]]
    /\ scale = [kind |-> "linear", domain |-> <<Num(0), Num(1)>>,
                range |-> <<Num(0), Num(1)>>, base |-> 10]
    /\ ret = Result("new", NaN, Returns(NaN, FALSE))
    /\ tp = IdleTicks
    /\ ticks = <<>>
    /\ chart = NoChart
    /\ stack = NoStack

\* the state of the caller after a call that returned r
After(pc, r) ==
    [ind EXCEPT !.pc = pc, !.data = r.data, !.thrown = r.thrown, !.out = r.out,
                !.arr = r.arr]

\* the first call
Calculate ==
    /\ ind.pc = "ready"
    /\ LET r == IndicatorCall(ind.call, ind.data)
       IN  ind' = [After("done", r) EXCEPT !.first = [thrown |-> r.thrown, out |-> r.out]]
    /\ UNCHANGED <<scale, ret, tp, ticks, chart, stack>>

\* a call of another indicator on the same series
CalculateOther ==
    /\ ind.pc = "done"
    /\ ind' = After("between",
                    calculateIndicator("rsi", ind.data, [NoParams EXCEPT !.period = Num(1)]))
    /\ UNCHANGED <<scale, ret, tp, ticks, chart, stack>>

\* the first call made again
CalculateAgain ==
    /\ ind.pc \in {"done", "between"}
    /\ ind' = After("again", IndicatorCall(ind.call, ind.data))
    /\ UNCHANGED <<scale, ret, tp, ticks, chart, stack>>

NextInd ==
    \/ Calculate
    \/ CalculateOther
    \/ CalculateAgain

SpecInd == InitInd /\ [][NextInd]_vars

\* the call has returned or thrown
Called(name) == ind.pc \in {"done", "again"} /\ ind.call.name = name
ValidPeriod(p) == p.k = "fin" /\ p.d = 1 /\ p.n >= 1
Numeric(data) == \A i \in 1..Len(data) : data[i].y.k = "fin"

\* the period of the call, with the default of a call that gives none
CallPeriod == Default(ind.call.params.period, Num(14))

\* the sum of the values of the points lo..hi of a series
RECURSIVE SumY(_, _, _)
SumY(data, lo, hi) == IF lo > hi THEN Num(0) ELSE NumAdd(data[lo].y, SumY(data, lo + 1, hi))

\* C13: SMA(period) over n numbers emits max(0, n - period + 1) points, one
\* for each index i >= period - 1, carrying the x of input point i and the
\* mean of the period values that end at i; the series (0,10), (1,12),
\* (2,9), (3,15) with period 2 gives (1,11), (2,10.5), (3,12)
C13_SMA ==
    (Called("sma") /\ ValidPeriod(CallPeriod) /\ Numeric(ind.given)) =>
      LET n == Len(ind.given)
          p == CallPeriod.n
      IN  /\ ~ind.thrown
          /\ Len(ind.out) = IF n - p + 1 > 0 THEN n - p + 1 ELSE 0
          /\ \A k \in 1..Len(ind.out) :
               /\ ind.out[k].x = ind.given[k + p - 1].x
               /\ ind.out[k].y = Div(SumY(ind.given, k, k + p - 1), Num(p))
          /\ (ind.given = ExampleSeries /\ p = 2) =>
               [k \in 1..Len(ind.out) |-> <<ind.out[k].x, ind.out[k].y>>]
                 = <<<<Num(1), Num(11)>>, <<Num(2), Fin(21, 2)>>, <<Num(3), Num(12)>>>>

\* the end-to-end scenario, computed
C13_Witness ==
    /\ Called("sma") /\ ind.call.entry = "module" /\ ind.given = ExampleSeries
    /\ CallPeriod = Num(2) /\ Len(ind.out) = 3

\* every point of the series has the same number as its value
Constant(data) == Numeric(data) /\ \A i \in 1..Len(data) : data[i].y = data[1].y

NoLoss(data, lo, hi) == \A j \in lo..hi : ~Lt(Field(data, j), Field(data, j - 1))

\* C15 as stated: RSI is 100 at every emitted index whose trailing period
\* changes hold no loss, whatever happened before them
C15_RSIWindowWithoutLoss ==
    (Called("rsi") /\ ValidPeriod(CallPeriod) /\ Numeric(ind.given)) =>
      \A k \in 1..Len(ind.out) :
        LET i == k + CallPeriod.n - 1
        IN  NoLoss(ind.given, i - CallPeriod.n + 1, i) => ind.out[k].rsi = Num(100)

\* C15: over a series of numbers RSI is 100 at an emitted index exactly when
\* the smoothed average loss is 0 there: when no change since the start of
\* the series is a loss (with period 1: when the last change is no loss);
\* the first emitted index is index period
C15_RSINoLossSinceStart ==
    (Called("rsi") /\ ValidPeriod(CallPeriod) /\ Numeric(ind.given)) =>
      /\ ~ind.thrown
      /\ \A k \in 1..Len(ind.out) :
           LET i == k + CallPeriod.n - 1
           IN  /\ ind.out[k].x = ind.given[i + 1].x
               /\ ind.out[k].rsi = Num(100)
                    <=> NoLoss(ind.given, IF CallPeriod.n = 1 THEN i ELSE 1, i)

\* a loss before the window of the last index, none in it, and an RSI below 100
C15_Witness ==
    /\ Called("rsi") /\ CallPeriod = Num(2) /\ Numeric(ind.given) /\ Len(ind.given) = 4
    /\ ~NoLoss(ind.given, 1, 1) /\ NoLoss(ind.given, 2, 3)
    /\ Len(ind.out) = 2 /\ ind.out[1].rsi # Num(100) /\ Lt(ind.out[2].rsi, Num(100))

\* C16: at every point that MACD emits neither macd nor signal is null and
\* histogram is macd - signal
C16_MACDHistogram ==
    Called("macd") =>
      \A k \in 1..Len(ind.out) :
        /\ ind.out[k].macd # Null
        /\ ind.out[k].signal # Null
        /\ ind.out[k].histogram = Sub(ind.out[k].macd, ind.out[k].signal)

\* a MACD series with a point whose histogram is a number other than 0
C16_Witness ==
    /\ Called("macd") /\ Len(ind.out) >= 2
    /\ \E k \in 1..Len(ind.out) :
         ind.out[k].histogram.k = "fin" /\ ind.out[k].histogram # Num(0)

\* a period or a deviations multiplier of the call is outside its valid range
BadParams ==
    LET q == ind.call.params
    IN  CASE ind.call.name = "macd" ->
               \/ BadPeriod(Default(q.fastPeriod, Num(12)))
               \/ BadPeriod(Default(q.slowPeriod, Num(26)))
               \/ BadPeriod(Default(q.signalPeriod, Num(9)))
          [] ind.call.name = "bollinger" ->
               \/ BadPeriod(Default(q.period, Num(20)))
               \/ Le(Default(q.deviations, Num(2)), Num(0))
          [] OTHER -> BadPeriod(CallPeriod)

\* C17 as stated: on every entry path and for every series, a call with a
\* period that is not a positive integer, or a Bollinger call with a
\* deviations multiplier that is not positive, fails and returns no series
C17_BadParamsRejected ==
    (ind.pc \in {"done", "again"} /\ BadParams) => (ind.thrown /\ ind.arr = "none")

\* C18 as stated: with valid parameters no call throws, whatever the series
\* is short of
C18_ShortfallsNeverThrow ==
    (ind.pc \in {"done", "again"} /\ ~BadParams) => ~ind.thrown

MaxSeries == 3

\* datasets taken from config.data the first time only and from
\* state.datasets after it
Chart_processDatasets_FromState(config) ==
    IF stack.datasets # <<>> THEN stack.datasets
    ELSE [k \in 1..Len(config) |-> [id |-> k, data |-> config[k]]]

\* Chart.processDatasets: state.datasets built from config.data
Chart_processDatasets(config) == [k \in 1..Len(config) |-> [id |-> k, data |-> config[k]]]

\* the x of a point as a key: a Date gives its time value
XKey(d) == getTime(d.x)

allXValues(datasets) ==
    UNION {{XKey(datasets[k].data[i]) :
              i \in {j \in 1..Len(datasets[k].data) : datasets[k].data[j].x # Undefined}} :
           k \in 1..Len(datasets)}

\* Array.from(allXValues).sort((a, b) => a - b), for keys that are numbers
RECURSIVE sortedXValues(_)
sortedXValues(S) ==
    IF S = {} THEN <<>>
    ELSE LET least == CHOOSE a \in S : \A b \in S : Le(a, b)
         IN  <<least>> \o sortedXValues(S \ {least})

\* datasetMaps[i].get(xVal): the y of the last point with that key that has
\* both x and y, undefined when there is none
MapGet(data, xVal) ==
    LET at == {i \in 1..Len(data) : /\ data[i].x # Undefined
                                    /\ data[i].y # Undefined
                                    /\ XKey(data[i]) = xVal}
    IN  IF at = {} THEN Undefined
        ELSE data[CHOOSE i \in at : \A j \in at : j <= i].y

\* a lookup that keeps a missing value as it is
OrZero_KeepsMissing(v) == v

\* v || 0
OrZero(v) ==
    IF v.k \in {"undef", "null", "nan"} \/ (v.k = "fin" /\ v.n = 0) THEN Num(0) ELSE v

\* for (let i = 0; i < datasetIndex; i++) stackedValue += datasetMaps[i].get(xVal) || 0,
\* from i on
RECURSIVE StackedValue(_, _, _, _, _)
StackedValue(datasets, datasetIndex, xVal, i, stackedValue) ==
    IF i < datasetIndex
    THEN StackedValue(datasets, datasetIndex, xVal, i + 1,
                      Add(stackedValue, OrZero(MapGet(datasets[i + 1].data, xVal))))
    ELSE stackedValue

createStackedData(datasets) ==
    LET sorted == sortedXValues(allXValues(datasets))
    IN  [k \in 1..Len(datasets) |->
           IF k = 1 THEN datasets[k]
           ELSE [datasets[k] EXCEPT !.data =
                   [j \in 1..Len(sorted) |->
                      LET value == OrZero(MapGet(datasets[k].data, sorted[j]))
                      IN  [x |-> sorted[j],
                           y |-> StackedValue(datasets, k - 1, sorted[j], 0, value),
                           originalValue |-> value]]]]

\* AreaChart.processDatasets
AreaChart_processDatasets(config, stacked) ==
    LET datasets == Chart_processDatasets(config)
    IN  IF stacked /\ Len(datasets) > 1 THEN createStackedData(datasets) ELSE datasets

\* the x keys and the values of the series; at a key a series has no point
\* or a point with a value, and two series have a point without y
XKeys == {0, 1}
StackVals == {Num(1), Num(2)}
Absent == [k |-> "absent", n |-> 0, d |-> 1]

StackSeries ==
    {SelectSeq([i \in 1..Cardinality(XKeys) |-> [x |-> Num(i - 1), y |-> f[i - 1]]],
               LAMBDA pt : pt.y # Absent) :
       f \in [XKeys -> {Absent} \cup StackVals]
                \cup {[key \in XKeys |-> IF key = 0 THEN Undefined ELSE Num(2)],
                      [key \in XKeys |-> IF key = 0 THEN Absent ELSE Undefined]}}

\* the data of a chart of n series
Configs(n) == [1..n -> StackSeries]

\* Math.max(...values) and Math.min(...values) of one value or more: NaN as
\* soon as a value is not a number
MaxOf(values) ==
    IF \E v \in values : ToNumber(v).k = "nan" THEN NaN
    ELSE CHOOSE m \in {ToNumber(v) : v \in values} : \A v \in values : Le(ToNumber(v), m)
MinOf(values) ==
    IF \E v \in values : ToNumber(v).k = "nan" THEN NaN
    ELSE CHOOSE m \in {ToNumber(v) : v \in values} : \A v \in values : Le(m, ToNumber(v))

\* yValuesByX.get(xVal) summed: d[yField] || 0 of every point with that key,
\* over the datasets 1..k
RECURSIVE SumByX(_, _, _)
SumByX(datasets, xVal, k) ==
    IF k = 0 THEN Num(0)
    ELSE LET data == datasets[k].data
             S[i \in 0..Len(data)] ==
                 IF i = 0 THEN SumByX(datasets, xVal, k - 1)
                 ELSE IF XKey(data[i]) = xVal THEN Add(S[i - 1], OrZero(data[i].y))
                 ELSE S[i - 1]
         IN  S[Len(data)]

\* the scales of a chart without points
DefaultScales == [yMin |-> Null, yMax |-> Null, yDomain |-> <<Num(0), Num(1)>>]

\* AreaChart.updateScales for a linear y scale: the least and the largest of
\* yValues and the domain given to the y scale
AreaChart_updateScales(datasets, stacked) ==
    LET at == {<<k, i>> \in (1..Len(datasets)) \X (1..(2 * Cardinality(XKeys))) :
                 i <= Len(datasets[k].data)}
        yValues == IF stacked /\ Len(datasets) > 1
                   THEN {SumByX(datasets, XKey(datasets[a[1]].data[a[2]]), Len(datasets)) :
                           a \in at}
                   ELSE {datasets[a[1]].data[a[2]].y : a \in at}
        yMin == MinOf(yValues)
        yMax == MaxOf(yValues)
        yPadding == Mul(Sub(yMax, yMin), Fin(1, 10))
    IN  IF at = {} THEN DefaultScales
        ELSE [yMin |-> yMin, yMax |-> yMax,
              yDomain |-> <<Sub(yMin, yPadding), Add(yMax, yPadding)>>]

\* the pass that init() and update() make: processDatasets, then
\* updateScales (init reaches it through createScales); seen is the stacked
\* option that the pass worked with, and before tells whether the pass
\* before it stacked
Pass(s) ==
    LET datasets == AreaChart_processDatasets(s.config, s.stacked)
    IN  [s EXCEPT !.pc = "processed", !.datasets = datasets, !.seen = s.stacked,
                  !.before = IF s.pc = "new" THEN "none"
                             ELSE IF s.seen THEN "stacked" ELSE "plain",
                  !.scales = AreaChart_updateScales(datasets, s.stacked)]

\* new AreaChart({data, options: {stacked}}) before init() runs; given is
\* what the caller's arrays held when they were handed over
InitStack ==
    /\ \E config \in UNION {Configs(n) : n \in 0..MaxSeries}, stacked \in BOOLEAN :
         stack = [pc |-> "new", config |-> config, given |-> config,
                  stacked |-> stacked, seen |-> FALSE, before |-> "none",
                  datasets |-> <<>>,
                  scales |-> DefaultScales, rendered |-> FALSE]
    /\ scale = [kind |-> "linear", domain |-> <<Num(0), Num(1)>>,
                range |-> <<Num(0), Num(1)>>, base |-> 10]
    /\ ret = Result("new", NaN, Returns(NaN, FALSE))
    /\ tp = IdleTicks
    /\ ticks = <<>>
    /\ chart = NoChart
    /\ ind = NoInd

\* init(): the first pass
processDatasets ==
    /\ stack.pc = "new"
    /\ stack' = Pass(stack)
    /\ UNCHANGED <<scale, ret, tp, ticks, chart, ind>>

\* render(): draws what state.datasets holds
render ==
    /\ stack.pc = "processed"
    /\ ~stack.rendered
    /\ stack' = [stack EXCEPT !.rendered = TRUE]
    /\ UNCHANGED <<scale, ret, tp, ticks, chart, ind>>

\* update() of a chart in state s: render() while the chart is not rendered,
\* a pass after it
Updated(s) ==
    IF ~s.rendered THEN [s EXCEPT !.rendered = TRUE]
    ELSE Pass(s)

update ==
    /\ stack.pc = "processed"
    /\ stack' = Updated(stack)
    /\ UNCHANGED <<scale, ret, tp, ticks, chart, ind>>

\* toggleStacked(stacked): the option is set and update() is called
toggleStacked(stacked) ==
    /\ stack.pc = "processed"
    /\ stack' = Updated([stack EXCEPT !.stacked = stacked])
    /\ UNCHANGED <<scale, ret, tp, ticks, chart, ind>>

NextStack ==
    \/ processDatasets
    \/ render
    \/ update
    \/ \E stacked \in BOOLEAN : toggleStacked(stacked)

SpecStack == InitStack /\ [][NextStack]_vars

\* the own value of a series of the caller at a key: 0 where it has none
Own(series, key) ==
    LET at == {i \in 1..Len(series) : series[i].x = key /\ series[i].y.k = "fin"}
    IN  IF at = {} THEN Num(0) ELSE series[CHOOSE i \in at : TRUE].y

RECURSIVE OwnSum(_, _, _)
OwnSum(config, k, key) ==
    IF k = 0 THEN Num(0) ELSE NumAdd(OwnSum(config, k - 1, key), Own(config[k], key))

\* the keys of the points of the caller, over all series
Keys(config) ==
    UNION {{config[k][i].x : i \in 1..Len(config[k])} : k \in 1..Len(config)}

\* C20: the first series passes through unchanged; the k-th series gets one
\* point for each x key of the chart, whose y is its own value at that key
\* plus the own values of the series before it, a missing value counting
\* as 0; series that all contribute the same v stack to k * v at the k-th
\* series (counted from 1)
C20_Stacking ==
    (stack.pc = "processed" /\ stack.seen /\ Len(stack.config) > 1) =>
      /\ Len(stack.datasets) = Len(stack.config)
      /\ stack.datasets[1].data = stack.config[1]
      /\ \A k \in 2..Len(stack.config) :
           LET data == stack.datasets[k].data
           IN  /\ Len(data) = Cardinality(Keys(stack.config))
               /\ {data[j].x : j \in 1..Len(data)} = Keys(stack.config)
               /\ \A j \in 1..Len(data) :
                    /\ data[j].y = OwnSum(stack.config, k, data[j].x)
                    /\ data[j].originalValue = Own(stack.config[k], data[j].x)
                    /\ \A v \in StackVals :
                         (\A i \in 1..k : Own(stack.config[i], data[j].x) = v)
                           => data[j].y = Mul(Num(k), v)

\* three stacked series, the second without a value at a key where the
\* first and the third have one
C20_Witness ==
    /\ stack.pc = "processed" /\ stack.seen /\ Len(stack.config) = 3
    /\ \E j \in 1..Len(stack.datasets[3].data) :
         LET key == stack.datasets[3].data[j].x
         IN  /\ Own(stack.config[1], key) = Num(2)
             /\ MapGet(stack.config[2], key) = Undefined
             /\ Own(stack.config[3], key) = Num(1)
             /\ stack.datasets[3].data[j].y = Num(3)


(***************************************************************************)
(* The indicators again: where each line of calculateMACD, calculateRSI,   *)
(* calculateEMA and calculateBollingerBands has a value, and which.        *)
(***************************************************************************)
\* the periods of a MACD call, with the defaults of a call that gives none
CallFast == Default(ind.call.params.fastPeriod, Num(12))
CallSlow == Default(ind.call.params.slowPeriod, Num(26))
CallSignal == Default(ind.call.params.signalPeriod, Num(9))

Max(a, b) == IF a >= b THEN a ELSE b

\* the first index at which both the fast and the slow EMA have a value
FirstMacdIndex == Max(CallFast.n, CallSlow.n) - 1
\* the index at which the signalPeriod-th MACD value is there
FirstSignalIndex == FirstMacdIndex + CallSignal.n - 1

\* the MACD value at index i: fast EMA minus slow EMA
MacdAt(data, i) ==
    Sub(EMAs(data, CallFast, 0, Null, <<>>)[i + 1],
        EMAs(data, CallSlow, 0, Null, <<>>)[i + 1])

RECURSIVE SumMacd(_, _, _)
SumMacd(data, lo, hi) ==
    IF lo > hi THEN Num(0) ELSE Add(MacdAt(data, lo), SumMacd(data, lo + 1, hi))

\* the signal value at index i >= FirstSignalIndex: the mean of the first
\* signalPeriod MACD values, then the EMA recurrence over the MACD values
RECURSIVE SignalAt(_, _)
SignalAt(data, i) ==
    IF i = FirstSignalIndex
    THEN Div(SumMacd(data, FirstMacdIndex, FirstSignalIndex), CallSignal)
    ELSE LET prev == SignalAt(data, i - 1)
         IN  Add(Mul(Sub(MacdAt(data, i), prev), Div(Num(2), Add(CallSignal, Num(1)))),
                 prev)

\* C22 as stated: for positive integer periods, fastPeriod > slowPeriod
\* included, and a series of numbers, the MACD line has a value from the
\* first index at which both EMAs have one, the signal line starts at the
\* index of the signalPeriod-th MACD value with the mean of the first
\* signalPeriod MACD values and follows the EMA recurrence after it, and
\* the output has one point for each index from there on, carrying the two
\* lines
C22_MACDAvailability ==
    (/\ Called("macd") /\ ind.call.entry = "module"
     /\ ValidPeriod(CallFast) /\ ValidPeriod(CallSlow) /\ ValidPeriod(CallSignal)
     /\ Numeric(ind.given)) =>
      /\ ~ind.thrown
      /\ Len(ind.out) = Max(0, Len(ind.given) - FirstSignalIndex)
      /\ \A k \in 1..Len(ind.out) :
           LET i == FirstSignalIndex + k - 1
           IN  /\ ind.out[k].x = ind.given[i + 1].x
               /\ ind.out[k].macd = MacdAt(ind.given, i)
               /\ ind.out[k].signal = SignalAt(ind.given, i)

\* the same statement for the calls with fastPeriod <= slowPeriod only
C22_FastNotAboveSlow ==
    (Called("macd") /\ ValidPeriod(CallFast) /\ ValidPeriod(CallSlow)
       /\ CallFast.n > CallSlow.n) \/ C22_MACDAvailability

\* the gain and the loss of the delta at index j >= 1
GainAt(data, j) ==
    LET change == Sub(Field(data, j), Field(data, j - 1))
    IN  IF Lt(Num(0), change) THEN change ELSE Num(0)
LossAt(data, j) ==
    LET change == Sub(Field(data, j), Field(data, j - 1))
    IN  IF Lt(change, Num(0)) THEN Neg(change) ELSE Num(0)

\* Wilder's averages at index i >= p: the mean of the first p gains (losses)
\* at index p, smoothed after it
RECURSIVE WilderGain(_, _, _)
WilderGain(data, p, i) ==
    IF i = p
    THEN LET S[j \in 0..p] == IF j = 0 THEN Num(0) ELSE Add(S[j - 1], GainAt(data, j))
         IN  Div(S[p], Num(p))
    ELSE Div(Add(Mul(WilderGain(data, p, i - 1), Num(p - 1)), GainAt(data, i)), Num(p))

RECURSIVE WilderLoss(_, _, _)
WilderLoss(data, p, i) ==
    IF i = p
    THEN LET S[j \in 0..p] == IF j = 0 THEN Num(0) ELSE Add(S[j - 1], LossAt(data, j))
         IN  Div(S[p], Num(p))
    ELSE Div(Add(Mul(WilderLoss(data, p, i - 1), Num(p - 1)), LossAt(data, i)), Num(p))

\* C23: RSI with a positive integer period over n points returns
\* max(0, n - period) points, the k-th for index period + k - 1 (index 0 and
\* the indices below period emit nothing); over a series of numbers its
\* avgGain and avgLoss are the sums of the gains and of the losses of the
\* first period deltas divided by period at index period, and
\* (prevAvg*(period-1) + current)/period at each later index, and its rsi is
\* 100 when avgLoss is 0 and 100 - 100/(1 + avgGain/avgLoss) otherwise
C23_RSIWilder ==
    (Called("rsi") /\ ValidPeriod(CallPeriod)) =>
      /\ ~ind.thrown
      /\ Len(ind.out) = Max(0, Len(ind.given) - CallPeriod.n)
      /\ \A k \in 1..Len(ind.out) :
           LET i == CallPeriod.n + k - 1
               point == ind.out[k]
           IN  /\ point.x = ind.given[i + 1].x
               /\ Numeric(ind.given) =>
                    /\ point.avgGain = WilderGain(ind.given, CallPeriod.n, i)
                    /\ point.avgLoss = WilderLoss(ind.given, CallPeriod.n, i)
                    /\ point.rsi =
                         IF point.avgLoss = Num(0) THEN Num(100)
                         ELSE Sub(Num(100),
                                  Div(Num(100),
                                      Add(Num(1), Div(point.avgGain, point.avgLoss))))

\* an RSI of period 2 over four numbers that rise, fall and stay: a seeded
\* point and a smoothed one, the second with a loss behind it and no gain
C23_Witness ==
    /\ Called("rsi") /\ CallPeriod = Num(2) /\ Len(ind.given) = 4
    /\ Numeric(ind.given) /\ Len(ind.out) = 2
    /\ Lt(Num(0), ind.out[1].avgGain) /\ Lt(Num(0), ind.out[1].avgLoss)
    /\ Lt(ind.out[2].avgLoss, ind.out[1].avgLoss)
    /\ Lt(ind.out[2].rsi, ind.out[1].rsi)

\* C24: EMA with a positive integer period over n points, through
\* calculateIndicator and through the studies of a LineChart, emits nothing
\* before index period - 1 and one point for each index from there on; over
\* a series of numbers the first value is the arithmetic mean of the first
\* period values and every later value is (value - prevEma)*k + prevEma with
\* k = 2/(period+1) and prevEma the value emitted at the index before
C24_EMA ==
    (Called("ema") /\ ValidPeriod(CallPeriod)) =>
      /\ ~ind.thrown
      /\ Len(ind.out) = Max(0, Len(ind.given) - (CallPeriod.n - 1))
      /\ \A k \in 1..Len(ind.out) :
           LET i == CallPeriod.n - 1 + k - 1
           IN  /\ ind.out[k].x = ind.given[i + 1].x
               /\ Numeric(ind.given) =>
                    ind.out[k].y =
                      IF k = 1
                      THEN Div(SumY(ind.given, 1, CallPeriod.n), CallPeriod)
                      ELSE LET prevEma == ind.out[k - 1].y
                           IN  Add(Mul(Sub(ind.given[i + 1].y, prevEma),
                                       Div(Num(2), Add(CallPeriod, Num(1)))),
                                   prevEma)

\* an EMA of period 3 over four numbers: a seed that is not the third value
\* and one value after it that differs from the seed
C24_Witness ==
    /\ Called("ema") /\ CallPeriod = Num(3) /\ Len(ind.given) = 4
    /\ Numeric(ind.given) /\ Len(ind.out) = 2
    /\ ind.out[1].y # ind.given[3].y
    /\ ind.out[2].y # ind.out[1].y
    /\ ind.out[2].y # ind.given[4].y

\* the deviations multiplier of a Bollinger call, with its default
CallDeviations == Default(ind.call.params.deviations, Num(2))

\* the mean of the squared deviations of the points lo..hi from mean
RECURSIVE SumSq(_, _, _, _)
SumSq(data, lo, hi, mean) ==
    IF lo > hi THEN Num(0)
    ELSE Add(Mul(Sub(data[lo].y, mean), Sub(data[lo].y, mean)),
             SumSq(data, lo + 1, hi, mean))

\* a band b lies at a distance from the middle whose square is sq, on the
\* side given by side (1 above, -1 below) or on the middle when sq is 0
BandAt(b, middle, side, sq) ==
    IF b.k = "band"
    THEN Fin(b.n, b.d) = middle /\ b.sign = side /\ Fin(b.rn, b.rd) = sq
    ELSE /\ b.k = "fin"
         /\ Mul(Sub(b, middle), Sub(b, middle)) = sq
         /\ Sgn(Sub(b, middle)) \in {0, side}

C28_StackingNeverCompounds ==
    stack.pc = "processed" =>
      /\ stack.config = stack.given
      /\ Len(stack.datasets) = Len(stack.given)
      /\ \A k \in 1..Len(stack.given) :
           LET data == stack.datasets[k].data
           IN  IF stack.seen /\ Len(stack.given) > 1 /\ k > 1
               THEN /\ Len(data) = Cardinality(Keys(stack.given))
                    /\ {data[j].x : j \in 1..Len(data)} = Keys(stack.given)
                    /\ \A j \in 1..Len(data) :
                         data[j].y = OwnSum(stack.given, k, data[j].x)
               ELSE data = stack.given[k]

\* a rendered chart of three series after an update pass that stacked them
\* and followed a pass with stacking off, whose top series has a value above
\* its own
C28_Witness ==
    /\ stack.pc = "processed" /\ stack.rendered
    /\ stack.seen /\ stack.before = "plain" /\ Len(stack.given) = 3
    /\ \E j \in 1..Len(stack.datasets[3].data) :
         /\ Lt(Num(0), stack.datasets[3].data[j].originalValue)
         /\ Lt(stack.datasets[3].data[j].originalValue, stack.datasets[3].data[j].y)

\* the largest cumulative value of the top series of a chart
TopOfStack(config) ==
    MaxOf({OwnSum(config, Len(config), key) : key \in Keys(config)})

\* C29 as stated: after processDatasets and updateScales of a stacked chart
\* of two series or more, the largest y value that the domain of the y
\* scale is derived from is the largest cumulative value of the top series
C29_StackedDomainMax ==
    (stack.pc = "processed" /\ stack.seen /\ Len(stack.given) >= 2
       /\ Keys(stack.given) # {}) =>
      stack.scales.yMax = TopOfStack(stack.given)

(***************************************************************************)
(* The resize handling of a chart: bindEvents, handleResize and destroy of *)
(* src/core/Chart.js.  The variable chart holds the options, the size of   *)
(* the container, state.dimensions, the ranges of the two scales, whether  *)
(* resizeHandler is a listener of the window, and whether the timer of the *)
(* debounce is pending; the timer fires at some moment after it was set.   *)
(***************************************************************************)
\* options.margins
margins == [top |-> 20, right |-> 20, bottom |-> 30, left |-> 40]

\* a || b
Or(a, b) == IF OrZero(a) = Num(0) THEN b ELSE a

\* setDimensionsWithoutUpdatingAxes: state.dimensions from the options and
\* the bounding rectangle of the container
Dimensions(c) ==
    LET width == MathMax(Num(1), Or(c.width, Or(c.container[1], Num(300))))
        height == MathMax(Num(1), Or(c.height, Or(c.container[2], Num(200))))
    IN  [width |-> width, height |-> height,
         innerWidth |-> MathMax(Num(1), Sub(Sub(width, Num(margins.left)),
                                            Num(margins.right))),
         innerHeight |-> MathMax(Num(1), Sub(Sub(height, Num(margins.top)),
                                             Num(margins.bottom)))]

\* setDimensionsWithoutUpdatingAxes followed by the updateScales it calls
\* when the scales exist: the ranges follow the inner dimensions
setDimensionsWithoutUpdatingAxes(c) ==
    LET dimensions == Dimensions(c)
    IN  [c EXCEPT !.dimensions = dimensions,
                  !.xRange = <<Num(0), dimensions.innerWidth>>,
                  !.yRange = <<dimensions.innerHeight, Num(0)>>]

\* handleResize: nothing when both width and height are options; otherwise
\* updateDimensions, and update() when the chart is rendered, whose
\* updateScales sets the same ranges again
handleResize(c) ==
    IF OrZero(c.width) = Num(0) \/ OrZero(c.height) = Num(0)
    THEN setDimensionsWithoutUpdatingAxes(c)
    ELSE c

\* the sizes of the container
ContainerSizes == {<<Num(0), Num(0)>>, <<Num(100), Num(80)>>, <<Num(200), Num(80)>>,
                   <<Num(200), Num(160)>>}

\* new LineChart(config) when init() has run: the dimensions are set, the
\* scales are created and updated, resizeHandler listens to the window
InitResize ==
    /\ \E width \in {Null, Num(400)}, height \in {Null, Num(300)},
            size \in ContainerSizes :
         chart = setDimensionsWithoutUpdatingAxes(
                   [pc |-> "live", width |-> width, height |-> height,
                    container |-> size, dimensions |-> <<>>, xRange |-> <<>>,
                    yRange |-> <<>>, rendered |-> FALSE, listening |-> TRUE,
                    timeout |-> FALSE])
    /\ scale = [kind |-> "linear", domain |-> <<Num(0), Num(1)>>,
                range |-> chart.xRange, base |-> 10]
    /\ ret = Result("new", NaN, Returns(NaN, FALSE))
    /\ tp = IdleTicks
    /\ ticks = <<>>
    /\ ind = NoInd
    /\ stack = NoStack

\* render()
DoRender ==
    /\ chart.pc = "live"
    /\ ~chart.rendered
    /\ chart' = [chart EXCEPT !.rendered = TRUE]
    /\ UNCHANGED <<scale, ret, tp, ticks, ind, stack>>

\* the window is resized and the container with it; resizeHandler, when it
\* is a listener, clears the pending timer and sets a new one
WindowResize(size) ==
    /\ size # chart.container
    /\ chart' = [chart EXCEPT !.container = size,
                              !.timeout = IF chart.listening THEN TRUE ELSE @]
    /\ UNCHANGED <<scale, ret, tp, ticks, ind, stack>>

\* the timer fires: later() clears it and calls handleResize
TimerFires ==
    /\ chart.timeout
    /\ chart' = handleResize([chart EXCEPT !.timeout = FALSE])
    /\ scale' = [scale EXCEPT !.range = chart'.xRange]
    /\ UNCHANGED <<ret, tp, ticks, ind, stack>>

\* destroy(): resizeHandler is removed from the window and the state is
\* reset; the timer is not cleared
destroy ==
    /\ chart.pc = "live"
    /\ chart' = [chart EXCEPT !.pc = "destroyed", !.listening = FALSE,
                              !.rendered = FALSE]
    /\ UNCHANGED <<scale, ret, tp, ticks, ind, stack>>

NextResize ==
    \/ DoRender
    \/ \E size \in ContainerSizes : WindowResize(size)
    \/ TimerFires
    \/ destroy

SpecResize == InitResize /\ [][NextResize]_vars

\* C30 as stated: once destroy() has returned, no step changes the
\* dimensions of the chart or the ranges of its scales, whatever the order
\* of the resize events, of the firing of the timer and of destroy()
C30_NoResizeAfterDestroy ==
    [][chart.pc = "destroyed" =>
         /\ chart'.dimensions = chart.dimensions
         /\ chart'.xRange = chart.xRange
         /\ chart'.yRange = chart.yRange]_vars

\* the same for the resize events that arrive after destroy(): they set no
\* timer
C30_NoTimerSetAfterDestroy ==
    [][(chart.pc = "destroyed" /\ ~chart.timeout) => ~chart'.timeout]_vars
=============================================================================
